---- MODULE Spec2Model ----
(***************************************************************************)
(* Durable-object playground: one identity of each actor kind (Batcher,    *)
(* ChatRoom, RateLimiter, Counter, Session) running on the actor runtime   *)
(* (storage engine, alarm scheduler, concurrency gate, lifecycle manager), *)
(* and the worker's /rate-limit route over the RateLimiter identities.     *)
(*                                                                         *)
(* The handlers are translated from packages/durable-objects/src, one      *)
(* action per stretch of code between two awaits.  The runtime they run on *)
(* is not part of the sources; its operators are modelled from the         *)
(* runtime's specification and are marked so in the comments.              *)
(***************************************************************************)
EXTENDS Integers, Sequences, FiniteSets

VARIABLES
    now,          \* wall clock, milliseconds (Date.now())
    resident,     \* TRUE while an ActorInstance of the identity is in memory
    barrier,      \* TRUE while a blockConcurrencyWhile callback is pending
    queue,        \* the gate's FIFO of requests waiting to be delivered
    running,      \* the units of work that have begun and not completed
    storage,      \* durable storage: key (a string, as its digits) -> value
    alarms,       \* durable AlarmRecords of the identity: a set of due times
    count,        \* Batcher.count (in memory)
    tokens,       \* RateLimiter.tokens (in memory)
    sessions,     \* ChatRoom.sessions (in memory), in insertion order
    policy,       \* the kind of arrivals this behaviour sends to the Batcher
    arrivals,     \* number of requests sent to the identity so far
    batch,        \* items acknowledged since the last alarm firing began
    windowStart,  \* Date.now() of the batching arrival that armed the alarm from unset
    lastArrival,  \* Date.now() of the latest debounce arrival of the batch
    outstanding,  \* alarms armed from unset minus alarm firings
    initRuns,     \* completed runs of the setup barrier in this instance
    served,       \* TRUE once this instance has begun a request or an alarm
    handled,      \* RateLimiter requests decided by this instance before any refill
    allowed,      \* how many of them were answered 200
    admitted,     \* RateLimiter requests answered 200 since the latest refill firing
    conn,         \* the state of each WebSocket connection
    lastCast,     \* what the latest ChatRoom.broadcast did
    failed,       \* the ChatRoom requests whose unit of work threw
    ledger,       \* the Counter value the updates delivered so far add up to
    reply,        \* the value reported by the latest Counter response
    buckets,      \* RateLimiter identities by name: tokens and alarm of each
    lastRoute,    \* the latest /rate-limit request: its IP, its identity, the buckets before
    accepted,     \* the chat messages whose history write was applied, in that order
    fanout,       \* the chat messages handed to ChatRoom.broadcast
    outcome,      \* how the latest completed chat request or event ended
    lastJoin,     \* what the latest handleSession sent: to whom, with which counts
    streams,      \* the /streamer/stream requests: producer and consumer of each
    location,     \* Location.location (in memory)
    visits,       \* the cities of the requests the Location instance has handled
    answer,       \* the latest /location response
    initializedAt,\* MyDurableObject.initializedAt (in memory)
    stamps,       \* the values getInitializedAt has returned from this instance
    acks,         \* the keys of the PUT /kv requests answered with success
    stats         \* the latest /stats response of the KVStore

rt == <<now, resident, barrier, queue, running, storage, alarms>>
rt_but_running == <<now, resident, barrier, queue, storage, alarms>>
mem == <<count, tokens, sessions>>
life == <<arrivals, outstanding, initRuns, served>>
batcherHist == <<policy, batch, windowStart, lastArrival>>
limiterHist == <<handled, allowed, admitted>>
chatHist == <<conn, lastCast, failed>>
counterHist == <<ledger, reply>>
routeHist == <<buckets, lastRoute>>
logHist == <<accepted, fanout, outcome, lastJoin>>
streamHist == <<streams>>
locationHist == <<location, visits, answer>>
rpcHist == <<initializedAt, stamps>>
kvHist == <<acks, stats>>
afterChat == <<streamHist, locationHist, rpcHist, kvHist>>
later == <<logHist, afterChat>>
others == <<counterHist, routeHist, later>>

vars == <<rt, mem, life, batcherHist, limiterHist, chatHist, others>>

-----------------------------------------------------------------------------
(* Bounds of the model *)

MaxSeconds == 17
MaxArrivals == 11
MaxQueue == 2
MaxRequests == 102
MaxMessages == 2
MaxUpdates == 4
MaxSessionSeconds == 70
MaxSessionRequests == 4
MaxRouteRequests == 4
MaxLog == 101
MaxStreams == 2
MaxFairStreams == 1
MaxFairProduced == 20
MaxVisits == 4
MaxRpcRequests == 3
MaxRpcMillis == 3
MaxKvRequests == 4
MaxMixedArrivals == 4
MaxAdmitted == 101
MaxFairSeconds == 20
MaxProduced == 7

(* Program constants *)

SECONDS == 10
MsPerSecond == 1000
milliseconds_per_request == 10
milliseconds_for_updates == 1000
capacity == 100
HistoryLimit == 100
TTLSeconds == 30
WorkerLimit == 5
NewLine == 10
Space == 32
DigitZero == 48

(* Figures of the README *)

ReadmeRefillTokens == 5000
ReadmeRefillSeconds == 5

None == -1
Undefined == <<"undefined">>
\* a token for an undefined string-valued property, and one for null
Missing == "(undefined)"
Null == "(null)"
NoReq == [item |-> 0, debounce |-> FALSE]
Conns == {"A", "B", "C"}

-----------------------------------------------------------------------------
(* Strings of decimal digits: Number.prototype.toString, parseInt, and the  *)
(* lexicographic order of storage keys.                                     *)

RECURSIVE ToString(_)
ToString(n) == IF n < 10 THEN <<n>> ELSE Append(ToString(n \div 10), n % 10)

RECURSIVE ParseInt(_)
ParseInt(s) ==
    IF Len(s) = 1 THEN s[1]
    ELSE 10 * ParseInt(SubSeq(s, 1, Len(s) - 1)) + s[Len(s)]

RECURSIVE LexLess(_, _)
LexLess(a, b) ==
    IF a = <<>> THEN b # <<>>
    ELSE IF b = <<>> THEN FALSE
    ELSE IF a[1] # b[1] THEN a[1] < b[1]
    ELSE LexLess(Tail(a), Tail(b))

-----------------------------------------------------------------------------
(* Durable Storage Engine (runtime, modelled from its specification)        *)

RECURSIVE SortedKeys(_)
SortedKeys(K) ==
    IF K = {} THEN <<>>
    ELSE LET m == CHOOSE k \in K : \A o \in K \ {k} : LexLess(k, o)
         IN  <<m>> \o SortedKeys(K \ {m})

Reverse(s) == [i \in 1..Len(s) |-> s[Len(s) + 1 - i]]

\* list({reverse, limit}): the keys in ascending lexicographic order,
\* reversed when asked, truncated to limit (0 = no limit)
StorageList(st, reverse, limit) ==
    LET asc == SortedKeys(DOMAIN st)
        ord == IF reverse THEN Reverse(asc) ELSE asc
    IN  IF limit > 0 /\ Len(ord) > limit THEN SubSeq(ord, 1, limit) ELSE ord

StoragePut(st, k, v) ==
    [x \in DOMAIN st \cup {k} |-> IF x = k THEN v ELSE st[x]]

StorageDeleteAll(st) == [x \in {} |-> 0]

-----------------------------------------------------------------------------
(* Alarm Scheduler (runtime, modelled from its specification)               *)

\* setAlarm(t): overwrite, not additive
SetAlarm(al, t) == {t}

\* getAlarm(): the pending due time, or None
GetAlarm(al) == IF al = {} THEN None ELSE CHOOSE t \in al : \A o \in al : t <= o

AlarmDue == alarms # {} /\ \E t \in alarms : t <= now

\* the due time elapsed while the identity was not resident: the callback
\* fires no later than the next resolve, before the request that resolved
Overdue == \E t \in alarms : t < now

-----------------------------------------------------------------------------
(* Concurrency Gate (runtime, modelled from its specification)              *)

\* a unit of work: its kind, its position, its request and its local variables
Unit(type, pc, req) ==
    [type |-> type, pc |-> pc, req |-> req, who |-> "",
     due |-> None, items |-> {}, set |-> None, cur |-> 0]

Delivered == {u \in running : u.type # "init"}

\* a gate that releases the next unit while another is suspended at an await
GateOpen == resident /\ ~barrier
\* the gate releases a unit only when no delivered unit is still executing
\* and no setup barrier is pending
GateFree == resident /\ ~barrier /\ Delivered = {}

-----------------------------------------------------------------------------
(* Initial states: nothing resident, nothing stored, no alarm *)

NoCast == [members |-> <<>>, exclude |-> "", failing |-> {},
           delivered |-> {}, after |-> <<>>, threw |-> FALSE]

NoReply == [value |-> 0, want |-> 0]
NoOutcome ==
    [item |-> 0, via |-> "", body |-> "", text |-> "", username |-> "",
     result |-> ""]
NoAnswer == [first |-> FALSE, previous |-> "", seen |-> 0, prior |-> ""]
NoStats ==
    [total_writes |-> 0, last_key_written |-> Null, acked |-> 0, last |-> Null]
NoJoin == [who |-> "", connected |-> 0, announced |-> 0]
NoRoute == [ip |-> "", id |-> "", before |-> [i \in {} |-> 0]]

InitCommon ==
    /\ now = 0
    /\ resident = FALSE
    /\ barrier = FALSE
    /\ queue = <<>>
    /\ running = {}
    /\ storage = [x \in {} |-> 0]
    /\ alarms = {}
    /\ count = None
    /\ tokens = None
    /\ sessions = Undefined
    /\ arrivals = 0
    /\ outstanding = 0
    /\ initRuns = 0
    /\ served = FALSE
    /\ batch = {}
    /\ windowStart = None
    /\ lastArrival = None
    /\ handled = None
    /\ allowed = None
    /\ admitted = None
    /\ conn = [c \in Conns |-> "new"]
    /\ lastCast = NoCast
    /\ failed = {}
    /\ ledger = 0
    /\ reply = NoReply
    /\ buckets = [i \in {} |-> 0]
    /\ lastRoute = NoRoute
    /\ accepted = <<>>
    /\ fanout = {}
    /\ outcome = NoOutcome
    /\ lastJoin = NoJoin
    /\ streams = <<>>
    /\ location = Missing
    /\ visits = <<>>
    /\ answer = NoAnswer
    /\ initializedAt = Undefined
    /\ stamps = <<>>
    /\ acks = <<>>
    /\ stats = NoStats

InitBatcher == InitCommon /\ policy \in {"batching", "debouncing"}

-----------------------------------------------------------------------------
(* The environment and the lifecycle manager, common to every actor kind *)

\* Time passes.  Work is instantaneous at the scale of the clock: time does
\* not pass while a unit is running or waiting, nor while the alarm of a
\* resident instance is due.
Advance(ms) ==
    /\ now < MaxSeconds * MsPerSecond
    /\ running = {} /\ queue = <<>>
    /\ ~(resident /\ AlarmDue)
    /\ now' = now + ms
    /\ UNCHANGED <<resident, barrier, queue, running, storage, alarms>>
    /\ UNCHANGED <<mem, life, batcherHist, limiterHist, chatHist, others>>

\* time passes, up to a horizon of its own
AdvanceWithin(ms, horizon) ==
    /\ now < horizon
    /\ running = {} /\ queue = <<>>
    /\ ~(resident /\ AlarmDue)
    /\ now' = now + ms
    /\ UNCHANGED <<resident, barrier, queue, running, storage, alarms>>
    /\ UNCHANGED <<mem, life, batcherHist, limiterHist, chatHist, others>>

\* what eviction leaves of the durable state
EvictKeeps(st) == st

\* eviction of an idle instance: discards the instance and its sessions,
\* keeps storage and alarm
Evict ==
    /\ resident
    /\ running = {} /\ queue = <<>> /\ ~barrier
    /\ resident' = FALSE
    /\ count' = None /\ tokens' = None /\ sessions' = Undefined
    /\ handled' = None /\ allowed' = None
    /\ admitted' = admitted
    /\ storage' = EvictKeeps(storage)
    /\ conn' = [c \in Conns |-> IF conn[c] \in {"open", "broken"}
                                THEN "evicted" ELSE conn[c]]
    /\ location' = Missing /\ initializedAt' = Undefined
    /\ UNCHANGED <<now, barrier, queue, running, alarms>>
    /\ UNCHANGED <<life, batcherHist, lastCast, failed, counterHist, routeHist>>
    /\ UNCHANGED <<logHist, streamHist, visits, answer, stamps, kvHist>>

-----------------------------------------------------------------------------
(* Batcher: callers and constructor *)

notBatcher == <<tokens, sessions, limiterHist, chatHist, others>>

Debounces == IF policy = "batching" THEN {FALSE} ELSE {TRUE}

\* one second passes
BatcherTick == Advance(MsPerSecond)

\* A caller resolves the Batcher identity and sends POST /batcher
BatcherArrive ==
    /\ arrivals < MaxArrivals
    /\ Len(queue) < MaxQueue
    /\ \E d \in Debounces :
          queue' = Append(queue, Unit("fetch", "start",
                                      [item |-> arrivals + 1, debounce |-> d]))
    /\ arrivals' = arrivals + 1
    /\ UNCHANGED <<now, resident, barrier, running, storage, alarms, count>>
    /\ UNCHANGED <<outstanding, initRuns, served, batcherHist, notBatcher>>

\* a constructor that starts the storage read without the barrier
BatcherConstructorFloats == FALSE
\* Batcher.constructor wraps its initialisation in blockConcurrencyWhile
BatcherConstructorBlocks == TRUE

\* resolve of a non-resident identity (a request is waiting, or the runtime
\* wakes the identity for its due alarm): a fresh instance whose fields have
\* their declared defaults, running the constructor
BatcherConstruct ==
    /\ ~resident
    /\ queue # <<>> \/ AlarmDue
    /\ resident' = TRUE
    /\ count' = 0
    /\ barrier' = BatcherConstructorBlocks
    /\ running' = {Unit("init", "list", NoReq)}
    /\ initRuns' = 0
    /\ served' = FALSE
    /\ UNCHANGED <<now, queue, storage, alarms>>
    /\ UNCHANGED <<arrivals, outstanding, batcherHist, notBatcher>>

\* vals.size === 0 ? 0 : parseInt(vals.keys().next().value)
BatcherCountFrom(vals) ==
    IF Len(vals) = 0 THEN 0 ELSE ParseInt(vals[1])

\* the blockConcurrencyWhile callback resumes after storage.list
BatcherInitDone ==
    /\ \E u \in running :
          /\ u.type = "init"
          /\ running' = running \ {u}
    /\ count' = BatcherCountFrom(StorageList(storage, TRUE, 1))
    /\ barrier' = FALSE
    /\ initRuns' = initRuns + 1
    /\ UNCHANGED <<now, resident, queue, storage, alarms>>
    /\ UNCHANGED <<arrivals, outstanding, served, batcherHist, notBatcher>>

-----------------------------------------------------------------------------
(* Batcher.fetch *)

\* the gate delivers the request at the head of the queue
BatcherDeliver ==
    /\ GateFree
    /\ ~Overdue
    /\ queue # <<>>
    /\ running' = running \cup {Head(queue)}
    /\ queue' = Tail(queue)
    /\ served' = TRUE
    /\ UNCHANGED <<now, resident, barrier, storage, alarms, count>>
    /\ UNCHANGED <<arrivals, outstanding, initRuns, batcherHist, notBatcher>>

\* this.count++; await request.text()
BatcherFetchStart ==
    /\ \E u \in running :
          /\ u.type = "fetch" /\ u.pc = "start"
          /\ running' = (running \ {u}) \cup {[u EXCEPT !.pc = "text"]}
    /\ count' = count + 1
    /\ UNCHANGED <<now, resident, barrier, queue, storage, alarms>>
    /\ UNCHANGED <<life, batcherHist, notBatcher>>

\* a fetch that sets the alarm only for debounce requests
BatcherAlarmDebounceOnly(debounce, al) ==
    IF debounce THEN SetAlarm(al, now + MsPerSecond * SECONDS) ELSE al
\* a fetch that sets the alarm on every request
BatcherAlarmAlways(debounce, al) == SetAlarm(al, now + MsPerSecond * SECONDS)
\* a fetch that ignores the debounce flag
BatcherAlarmIfAbsent(debounce, al) ==
    IF GetAlarm(al) = None THEN SetAlarm(al, now + MsPerSecond * SECONDS) ELSE al
\* the alarm decision of fetch: debounce resets, batching sets only if absent
BatcherAlarmAfter(debounce, al) ==
    IF debounce
    THEN SetAlarm(al, now + MsPerSecond * SECONDS)
    ELSE IF GetAlarm(al) = None
         THEN SetAlarm(al, now + MsPerSecond * SECONDS)
         ELSE al

\* body read; JSON.parse; debounce ? setAlarm : (await getAlarm, setAlarm if null)
BatcherFetchAlarm ==
    /\ \E u \in running :
          /\ u.type = "fetch" /\ u.pc = "text"
          /\ running' = (running \ {u}) \cup {[u EXCEPT !.pc = "put"]}
          /\ alarms' = BatcherAlarmAfter(u.req.debounce, alarms)
          /\ outstanding' = IF alarms = {} /\ alarms' # {}
                            THEN outstanding + 1 ELSE outstanding
          /\ windowStart' = IF ~u.req.debounce /\ alarms = {}
                            THEN now ELSE windowStart
          /\ lastArrival' = IF u.req.debounce THEN now ELSE lastArrival
    /\ UNCHANGED <<now, resident, barrier, queue, storage, count>>
    /\ UNCHANGED <<arrivals, initRuns, served, policy, batch, notBatcher>>

\* await storage.put(this.count.toString(), body); return { queued, debounce }
BatcherFetchPut ==
    /\ \E u \in running :
          /\ u.type = "fetch" /\ u.pc = "put"
          /\ running' = running \ {u}
          /\ storage' = StoragePut(storage, ToString(count), u.req.item)
          /\ batch' = batch \cup {u.req.item}
    /\ UNCHANGED <<now, resident, barrier, queue, alarms, count>>
    /\ UNCHANGED <<life, policy, windowStart, lastArrival, notBatcher>>

-----------------------------------------------------------------------------
(* Batcher.alarm *)

\* a scheduler that leaves the record in place while the callback runs
AlarmKeep(al) == al
\* the record of the alarm being fired is cleared before its callback begins
AlarmClear(al) == {}

\* the due alarm is delivered through the gate
BatcherAlarmDeliver ==
    /\ GateFree
    /\ AlarmDue
    /\ running' = running \cup {[Unit("alarm", "list", NoReq)
                                   EXCEPT !.due = GetAlarm(alarms)]}
    /\ alarms' = AlarmClear(alarms)
    /\ outstanding' = outstanding - 1
    /\ served' = TRUE
    /\ UNCHANGED <<now, resident, barrier, queue, storage, count>>
    /\ UNCHANGED <<arrivals, initRuns, batcherHist, notBatcher>>

\* vals = await storage.list(); batchItems = values; log; await deleteAll()
BatcherAlarmList ==
    /\ \E u \in running :
          /\ u.type = "alarm" /\ u.pc = "list"
          /\ running' = (running \ {u}) \cup
                {[u EXCEPT !.pc = "deleteAll",
                           !.items = {storage[k] : k \in DOMAIN storage}]}
    /\ storage' = StorageDeleteAll(storage)
    /\ UNCHANGED <<now, resident, barrier, queue, alarms, count>>
    /\ UNCHANGED <<life, batcherHist, notBatcher>>

\* an alarm callback that leaves the counter as it is
BatcherAlarmCountKept(c) == c
\* this.count = 0
BatcherAlarmCount(c) == 0

\* deleteAll resolved; this.count = 0; the callback returns
BatcherAlarmDone ==
    /\ \E u \in running :
          /\ u.type = "alarm" /\ u.pc = "deleteAll"
          /\ running' = running \ {u}
    /\ count' = BatcherAlarmCount(count)
    /\ batch' = {}
    /\ windowStart' = None
    /\ lastArrival' = None
    /\ UNCHANGED <<now, resident, barrier, queue, storage, alarms>>
    /\ UNCHANGED <<life, policy, notBatcher>>

NextBatcher ==
    \/ BatcherTick
    \/ Evict
    \/ BatcherArrive
    \/ BatcherConstruct
    \/ BatcherInitDone
    \/ BatcherDeliver
    \/ BatcherFetchStart
    \/ BatcherFetchAlarm
    \/ BatcherFetchPut
    \/ BatcherAlarmDeliver
    \/ BatcherAlarmList
    \/ BatcherAlarmDone

SpecBatcher == InitBatcher /\ [][NextBatcher]_vars

\* one identity receiving requests of both kinds: each request declares its
\* own policy in its body
InitBatcherMixed == InitCommon /\ policy = "mixed"

\* a caller sends POST /batcher, with {"debounce": true} or without
BatcherArriveMixed ==
    /\ arrivals < MaxMixedArrivals
    /\ Len(queue) < MaxQueue
    /\ \E d \in BOOLEAN :
          queue' = Append(queue, Unit("fetch", "start",
                                      [item |-> arrivals + 1, debounce |-> d]))
    /\ arrivals' = arrivals + 1
    /\ UNCHANGED <<now, resident, barrier, running, storage, alarms, count>>
    /\ UNCHANGED <<outstanding, initRuns, served, batcherHist, notBatcher>>

NextBatcherMixed ==
    \/ BatcherTick
    \/ Evict
    \/ BatcherArriveMixed
    \/ BatcherConstruct
    \/ BatcherInitDone
    \/ BatcherDeliver
    \/ BatcherFetchStart
    \/ BatcherFetchAlarm
    \/ BatcherFetchPut
    \/ BatcherAlarmDeliver
    \/ BatcherAlarmList
    \/ BatcherAlarmDone

SpecBatcherMixed == InitBatcherMixed /\ [][NextBatcherMixed]_vars

-----------------------------------------------------------------------------
(* RateLimiter *)

notLimiter == <<count, sessions, initRuns, served, batcherHist, chatHist,
                others>>

InitLimiter == InitCommon /\ policy = "none"

Min(a, b) == IF a < b THEN a ELSE b

\* the refill interval of checkAndSetAlarm
RefillInterval == milliseconds_for_updates * milliseconds_per_request

\* half a refill interval passes
LimiterTick == Advance(RefillInterval \div 2)

\* A caller resolves the identity of its IP and sends GET /rate-limit
LimiterArrive ==
    /\ handled # None => handled + Len(queue) < MaxRequests
    /\ Len(queue) < MaxQueue
    /\ queue' = Append(queue, Unit("fetch", "checkAlarm", NoReq))
    /\ UNCHANGED <<now, resident, barrier, running, storage, alarms, tokens>>
    /\ UNCHANGED <<arrivals, outstanding, limiterHist, notLimiter>>

\* RateLimiter.constructor: this.tokens = RateLimiter.capacity
LimiterConstruct ==
    /\ ~resident
    /\ queue # <<>> \/ AlarmDue
    /\ resident' = TRUE
    /\ tokens' = capacity
    /\ handled' = 0
    /\ allowed' = 0
    /\ admitted' = admitted
    /\ UNCHANGED <<now, barrier, queue, running, storage, alarms>>
    /\ UNCHANGED <<arrivals, outstanding, notLimiter>>

\* the gate delivers the request at the head of the queue; fetch calls
\* getMillisecondsToNextRequest, which awaits checkAndSetAlarm
LimiterDeliver ==
    /\ GateFree
    /\ ~Overdue
    /\ queue # <<>>
    /\ running' = running \cup {Head(queue)}
    /\ queue' = Tail(queue)
    /\ UNCHANGED <<now, resident, barrier, storage, alarms, tokens>>
    /\ UNCHANGED <<arrivals, outstanding, limiterHist, notLimiter>>

\* a check that only looks for a missing alarm
CheckAndSetAlarmIfNull(al) ==
    IF GetAlarm(al) = None THEN SetAlarm(al, now + RefillInterval) ELSE al
\* checkAndSetAlarm: if no alarm exists, or the current alarm is in the past,
\* set one a refill interval from now
CheckAndSetAlarm(al) ==
    IF GetAlarm(al) = None \/ GetAlarm(al) <= now
    THEN SetAlarm(al, now + RefillInterval)
    ELSE al

\* a bucket that admits one request too many
TokenAvailableInclusive(t) == t >= 0
\* getMillisecondsToNextRequest: if (this.tokens > 0)
TokenAvailable(t) == t > 0

\* checkAndSetAlarm resumes; tokens are taken or not; 200, or on to the 429
LimiterFetchDecide ==
    /\ \E u \in running :
          /\ u.type = "fetch" /\ u.pc = "checkAlarm"
          /\ running' = IF TokenAvailable(tokens)
                        THEN running \ {u}
                        ELSE (running \ {u}) \cup {[u EXCEPT !.pc = "reject"]}
    /\ alarms' = CheckAndSetAlarm(alarms)
    /\ outstanding' = IF alarms = {} /\ alarms' # {}
                      THEN outstanding + 1 ELSE outstanding
    /\ tokens' = IF TokenAvailable(tokens) THEN tokens - 1 ELSE tokens
    /\ handled' = IF handled = None THEN None ELSE handled + 1
    /\ allowed' = IF allowed = None THEN None
                  ELSE IF TokenAvailable(tokens) THEN allowed + 1 ELSE allowed
    /\ admitted' = IF admitted # None /\ TokenAvailable(tokens)
                   THEN Min(admitted + 1, MaxAdmitted)
                   ELSE admitted
    /\ UNCHANGED <<now, resident, barrier, queue, storage>>
    /\ UNCHANGED <<arrivals, notLimiter>>

\* nextRefillTime = await getAlarm(); return 429
LimiterFetchReject ==
    /\ \E u \in running :
          /\ u.type = "fetch" /\ u.pc = "reject"
          /\ running' = running \ {u}
    /\ UNCHANGED <<now, resident, barrier, queue, storage, alarms, tokens>>
    /\ UNCHANGED <<arrivals, outstanding, limiterHist, notLimiter>>

\* the due alarm is delivered through the gate
LimiterAlarmDeliver ==
    /\ GateFree
    /\ AlarmDue
    /\ running' = running \cup {[Unit("alarm", "refill", NoReq)
                                   EXCEPT !.due = GetAlarm(alarms)]}
    /\ alarms' = AlarmClear(alarms)
    /\ outstanding' = outstanding - 1
    /\ handled' = None
    /\ allowed' = None
    /\ admitted' = 0
    /\ UNCHANGED <<now, resident, barrier, queue, storage, tokens>>
    /\ UNCHANGED <<arrivals, notLimiter>>

\* alarm(): tokens = min(capacity, tokens + milliseconds_for_updates);
\* await checkAndSetAlarm()
LimiterAlarmRefill ==
    /\ \E u \in running :
          /\ u.type = "alarm" /\ u.pc = "refill"
          /\ running' = (running \ {u}) \cup {[u EXCEPT !.pc = "checkAlarm"]}
    /\ tokens' = Min(capacity, tokens + milliseconds_for_updates)
    /\ UNCHANGED <<now, resident, barrier, queue, storage, alarms>>
    /\ UNCHANGED <<arrivals, outstanding, limiterHist, notLimiter>>

\* checkAndSetAlarm resumes inside the callback
LimiterAlarmCheck ==
    /\ \E u \in running :
          /\ u.type = "alarm" /\ u.pc = "checkAlarm"
          /\ running' = (running \ {u}) \cup
                {[u EXCEPT !.pc = "done",
                           !.set = IF CheckAndSetAlarm(alarms) # alarms
                                   THEN GetAlarm(CheckAndSetAlarm(alarms))
                                   ELSE None]}
    /\ alarms' = CheckAndSetAlarm(alarms)
    /\ outstanding' = IF alarms = {} /\ alarms' # {}
                      THEN outstanding + 1 ELSE outstanding
    /\ UNCHANGED <<now, resident, barrier, queue, storage, tokens>>
    /\ UNCHANGED <<arrivals, limiterHist, notLimiter>>

\* the callback has returned to the scheduler
LimiterAlarmReturn ==
    /\ \E u \in running :
          /\ u.type = "alarm" /\ u.pc = "done"
          /\ running' = running \ {u}
    /\ UNCHANGED <<now, resident, barrier, queue, storage, alarms, tokens>>
    /\ UNCHANGED <<arrivals, outstanding, limiterHist, notLimiter>>

NextLimiter ==
    \/ LimiterTick
    \/ Evict
    \/ LimiterArrive
    \/ LimiterConstruct
    \/ LimiterDeliver
    \/ LimiterFetchDecide
    \/ LimiterFetchReject
    \/ LimiterAlarmDeliver
    \/ LimiterAlarmRefill
    \/ LimiterAlarmCheck
    \/ LimiterAlarmReturn

SpecLimiter == InitLimiter /\ [][NextLimiter]_vars

\* a due time seen from a clock whose origin has moved ms further on
Rebased(t, ms) == IF t > ms THEN t - ms ELSE 0

\* half a refill interval passes, whether or not requests are waiting or in
\* progress; the clock waits only at the due alarm of a resident instance
\* whose gate is free.  Time never stops: the code uses Date.now() only in
\* now + interval and alarm <= now, so from MaxFairSeconds on the origin of
\* the clock moves instead of its reading
LimiterClock ==
    /\ ~(GateFree /\ AlarmDue)
    /\ IF now < MaxFairSeconds * MsPerSecond
       THEN /\ now' = now + RefillInterval \div 2
            /\ alarms' = alarms
       ELSE /\ now' = now
            /\ alarms' = {Rebased(t, RefillInterval \div 2) : t \in alarms}
    /\ UNCHANGED <<resident, barrier, queue, running, storage>>
    /\ UNCHANGED <<mem, life, batcherHist, limiterHist, chatHist, others>>

NextLimiterFair ==
    \/ LimiterClock
    \/ Evict
    \/ LimiterArrive
    \/ LimiterConstruct
    \/ LimiterDeliver
    \/ LimiterFetchDecide
    \/ LimiterFetchReject
    \/ LimiterAlarmDeliver
    \/ LimiterAlarmRefill
    \/ LimiterAlarmCheck
    \/ LimiterAlarmReturn

\* the client keeps sending, the clock keeps running, the gate and the
\* handlers keep going, and a due alarm is delivered: it is not passed over
\* for ever by the requests that arrive at its due time
SpecLimiterFair ==
    /\ InitLimiter /\ [][NextLimiterFair]_vars
    /\ WF_vars(LimiterClock)
    /\ WF_vars(LimiterArrive)
    /\ WF_vars(LimiterConstruct)
    /\ WF_vars(LimiterDeliver)
    /\ WF_vars(LimiterFetchDecide)
    /\ WF_vars(LimiterFetchReject)
    /\ SF_vars(LimiterAlarmDeliver)
    /\ WF_vars(LimiterAlarmRefill)
    /\ WF_vars(LimiterAlarmCheck)
    /\ WF_vars(LimiterAlarmReturn)

-----------------------------------------------------------------------------
(* ChatRoom *)

notChat == <<count, tokens, outstanding, initRuns, served, batcherHist,
             limiterHist, failed, counterHist, routeHist, afterChat>>

InitChat == InitCommon /\ policy = "none"

Range(q) == {q[i] : i \in 1..Len(q)}
Without(q, c) == SelectSeq(q, LAMBDA x : x # c)

\* session.send throws once the peer of the connection is gone
SendThrows(c) == conn[c] \in {"broken", "closing"}

\* a forEach whose send is not guarded: the first failure ends the loop and
\* is raised to the caller
RECURSIVE UnguardedFrom(_, _, _)
UnguardedFrom(todo, exclude, acc) ==
    IF todo = <<>> THEN acc
    ELSE LET c == Head(todo) IN
         IF c = exclude THEN UnguardedFrom(Tail(todo), exclude, acc)
         ELSE IF SendThrows(c) THEN [acc EXCEPT !.threw = TRUE]
         ELSE UnguardedFrom(Tail(todo), exclude,
                            [acc EXCEPT !.delivered = @ \cup {c}])

\* sessions.forEach: if (session !== exclude) try send, catch delete
RECURSIVE BroadcastFrom(_, _, _)
BroadcastFrom(todo, exclude, acc) ==
    IF todo = <<>> THEN acc
    ELSE LET c == Head(todo) IN
         IF c = exclude THEN BroadcastFrom(Tail(todo), exclude, acc)
         ELSE IF SendThrows(c)
              THEN BroadcastFrom(Tail(todo), exclude,
                                 [acc EXCEPT !.after = Without(@, c)])
              ELSE BroadcastFrom(Tail(todo), exclude,
                                 [acc EXCEPT !.delivered = @ \cup {c}])

CastOf(sess, exclude) ==
    [members |-> sess, exclude |-> exclude,
     failing |-> {c \in Conns : SendThrows(c)},
     delivered |-> {}, after |-> sess, threw |-> FALSE]

BroadcastUnguarded(sess, exclude) ==
    UnguardedFrom(sess, exclude, CastOf(sess, exclude))
\* ChatRoom.broadcast(message, exclude): what it delivers and what it leaves
Broadcast(sess, exclude) ==
    BroadcastFrom(sess, exclude, CastOf(sess, exclude))

\* one of the clients cs opens GET /chat/ws with the Upgrade header
ChatConnectOf(cs) ==
    /\ Len(queue) < MaxQueue
    /\ \E c \in cs :
          /\ conn[c] = "new"
          /\ conn' = [conn EXCEPT ![c] = "pending"]
          /\ queue' = Append(queue, [Unit("join", "start", NoReq) EXCEPT !.who = c])
    /\ UNCHANGED <<now, resident, barrier, running, storage, alarms, sessions>>
    /\ UNCHANGED <<arrivals, lastCast, logHist, notChat>>

\* the bodies a caller may send: JSON with a text and a username, or text
\* that is not JSON
Bodies == {"json", "malformed"}

\* the text and the username of a body: absent, empty, or some characters
Fields == {Missing, "", "hi"}

\* a request or event carrying a chat message: its number, whether its body
\* parses, the type, text and username it carries
ChatReq(n, b, ty, t, usr) ==
    [item |-> n, debounce |-> FALSE, body |-> b, type |-> ty,
     text |-> t, username |-> usr]

\* a caller sends POST /chat/send with a text and a username
ChatSendArrive ==
    /\ arrivals < MaxMessages
    /\ Len(queue) < MaxQueue
    /\ \E b \in Bodies :
          queue' = Append(queue, Unit("send", "start",
                          ChatReq(arrivals + 1, b, "message", "hi", "hi")))
    /\ arrivals' = arrivals + 1
    /\ UNCHANGED <<now, resident, barrier, running, storage, alarms, sessions>>
    /\ UNCHANGED <<chatHist, logHist, notChat>>

\* a client opens GET /chat/ws with the Upgrade header
ChatConnect == ChatConnectOf(Conns)

\* the peer of an open connection goes away: sends to it throw from now on
ChatBreak ==
    /\ \E c \in Conns :
          /\ conn[c] = "open"
          /\ conn' = [conn EXCEPT ![c] = "broken"]
    /\ UNCHANGED <<rt, sessions, arrivals, lastCast, logHist, notChat>>

\* the close event of a broken connection reaches the gate
ChatCloseArrive ==
    /\ Len(queue) < MaxQueue
    /\ \E c \in Conns :
          /\ conn[c] = "broken"
          /\ conn' = [conn EXCEPT ![c] = "closing"]
          /\ queue' = Append(queue, [Unit("close", "start", NoReq) EXCEPT !.who = c])
    /\ UNCHANGED <<now, resident, barrier, running, storage, alarms, sessions>>
    /\ UNCHANGED <<arrivals, lastCast, logHist, notChat>>

\* a constructor that leaves the field unset
ChatConstructorUnset == sessions
\* ChatRoom.constructor: this.sessions = new Set()
ChatConstructorSessions == <<>>

\* resolve of a non-resident identity
ChatConstruct ==
    /\ ~resident
    /\ queue # <<>>
    /\ resident' = TRUE
    /\ sessions' = ChatConstructorSessions
    /\ UNCHANGED <<now, barrier, queue, running, storage, alarms>>
    /\ UNCHANGED <<arrivals, chatHist, logHist, notChat>>

\* the gate delivers the request or event at the head of the queue
ChatDeliver ==
    /\ GateFree
    /\ queue # <<>>
    /\ running' = running \cup {Head(queue)}
    /\ queue' = Tail(queue)
    /\ UNCHANGED <<now, resident, barrier, storage, alarms, sessions>>
    /\ UNCHANGED <<arrivals, chatHist, logHist, notChat>>

\* this.sessions.add(webSocket)
Joined(sess, who) == Append(sess, who)

\* a count taken before the joiner is added
SessionCountBeforeAdd(sess, who) == Len(sess)
\* sessionCount: this.sessions.size, read after the add
SessionCount(sess, who) == Len(Joined(sess, who))

\* fetch /chat/ws: handleSession(server): accept, sessions.add, listeners,
\* send "connected", broadcast "user-joined" to the others; return 101
ChatJoin ==
    /\ \E u \in running :
          /\ u.type = "join"
          /\ running' = running \ {u}
          /\ conn' = [conn EXCEPT ![u.who] = "open"]
          /\ lastCast' = Broadcast(Joined(sessions, u.who), u.who)
          /\ sessions' = lastCast'.after
          /\ lastJoin' = [who |-> u.who,
                          connected |-> SessionCount(sessions, u.who),
                          announced |-> SessionCount(sessions, u.who)]
    /\ UNCHANGED <<rt_but_running, arrivals, failed>>
    /\ UNCHANGED <<accepted, fanout, outcome, notChat>>

\* !v of a text or a username
Falsy(v) == v \in {Missing, ""}

\* a check that rejects only a body lacking both
RejectedIfBoth(text, username) == Falsy(text) /\ Falsy(username)
\* if (!text || !username)
Rejected(text, username) == Falsy(text) \/ Falsy(username)

\* fetch /chat/send: await request.json(); text and username are present;
\* addMessage: await storage.get("messages")
ChatSendStart ==
    /\ \E u \in running :
          /\ u.type = "send" /\ u.pc = "start"
          /\ u.req.body = "json"
          /\ ~Rejected(u.req.text, u.req.username)
          /\ running' = (running \ {u}) \cup {[u EXCEPT !.pc = "get"]}
    /\ UNCHANGED <<rt_but_running, sessions, arrivals, chatHist, logHist, notChat>>

\* how the request or event of unit u ended
Outcome(u, o) ==
    [item |-> u.req.item, via |-> u.type, body |-> u.req.body,
     text |-> u.req.text, username |-> u.req.username, result |-> o]

\* fetch /chat/send: text or username is missing or empty: return 400
ChatSendReject ==
    /\ \E u \in running :
          /\ u.type = "send" /\ u.pc = "start"
          /\ u.req.body = "json"
          /\ Rejected(u.req.text, u.req.username)
          /\ running' = running \ {u}
          /\ outcome' = Outcome(u, "400")
    /\ UNCHANGED <<rt_but_running, sessions, arrivals, chatHist>>
    /\ UNCHANGED <<accepted, fanout, lastJoin, notChat>>

\* a gate that a unit which threw never gives back
AfterThrowStuck(units, u) == units
\* what a unit of work that throws leaves executing: nothing, the gate goes
\* on with the next unit
AfterThrow(units, u) == units \ {u}

\* fetch /chat/send: await request.json() throws on a body that is not JSON;
\* the rejection ends the unit of work
ChatSendThrow ==
    /\ \E u \in running :
          /\ u.type = "send" /\ u.pc = "start"
          /\ u.req.body = "malformed"
          /\ running' = AfterThrow(running, u)
          /\ failed' = failed \cup {u.req.item}
          /\ outcome' = Outcome(u, "threw")
    /\ UNCHANGED <<rt_but_running, sessions, arrivals, conn, lastCast>>
    /\ UNCHANGED <<accepted, fanout, lastJoin>>
    /\ UNCHANGED <<count, tokens, outstanding, initRuns, served, batcherHist,
                   limiterHist, counterHist, routeHist, afterChat>>

\* a history that drops the oldest message one message early
AddMessageEarly(messages, m) ==
    LET pushed == Append(messages, m)
    IN  IF Len(pushed) >= HistoryLimit THEN Tail(pushed) ELSE pushed
\* messages.push(message); if (messages.length > 100) messages.shift()
AddMessage(messages, m) ==
    LET pushed == Append(messages, m)
    IN  IF Len(pushed) > HistoryLimit THEN Tail(pushed) ELSE pushed

History(st) == IF "messages" \in DOMAIN st THEN st["messages"] ELSE <<>>

\* the units that carry a chat message: fetch /chat/send and the "message"
\* listener of a connection
MessageUnits == {u \in running : u.type \in {"send", "message"}}

\* addMessage resumes: push, shift, await storage.put("messages", messages);
\* the write is applied
ChatSendPut ==
    /\ \E u \in MessageUnits :
          /\ u.pc = "get"
          /\ running' = (running \ {u}) \cup {[u EXCEPT !.pc = "put"]}
          /\ storage' = StoragePut(storage, "messages",
                                   AddMessage(History(storage), u.req.item))
          /\ accepted' = Append(accepted, u.req.item)
    /\ UNCHANGED <<now, resident, barrier, queue, alarms>>
    /\ UNCHANGED <<sessions, arrivals, chatHist, fanout, outcome, lastJoin, notChat>>

\* a handler that fans out although the write failed
AfterPutFailCast(u) == {[u EXCEPT !.pc = "put"]}
\* what is left of a unit whose storage.put rejected: the await throws, the
\* statements after it are skipped
AfterPutFail(u) == {}

\* addMessage resumes: push, shift, await storage.put fails and writes
\* nothing.  fetch /chat/send rejects with it; the "message" listener catches
\* it and sends an error frame to its own connection
ChatSendPutFail ==
    /\ \E u \in MessageUnits :
          /\ u.pc = "get"
          /\ running' = (running \ {u}) \cup AfterPutFail(u)
          /\ failed' = failed \cup {u.req.item}
          /\ outcome' = Outcome(u,
                                IF u.type = "send" THEN "threw" ELSE "error")
    /\ UNCHANGED <<rt_but_running, sessions, arrivals, conn, lastCast>>
    /\ UNCHANGED <<accepted, fanout, lastJoin>>
    /\ UNCHANGED <<count, tokens, outstanding, initRuns, served, batcherHist,
                   limiterHist, counterHist, routeHist, afterChat>>

\* the write has completed: this.broadcast({type: "message", message});
\* fetch /chat/send returns success
ChatSendCast ==
    /\ \E u \in MessageUnits :
          /\ u.pc = "put"
          /\ running' = running \ {u}
          /\ fanout' = fanout \cup {u.req.item}
          /\ outcome' = Outcome(u,
                                IF u.type = "send" THEN "200" ELSE "cast")
    /\ lastCast' = Broadcast(sessions, "")
    /\ sessions' = lastCast'.after
    /\ UNCHANGED <<rt_but_running, arrivals, conn, failed>>
    /\ UNCHANGED <<accepted, lastJoin, notChat>>

\* what a frame sent over a connection may hold: a chat message, JSON of
\* another type, or text that is not JSON
Frames == {"message", "other", "malformed"}

\* the peer of an open connection sends a frame: a "message" event for the
\* listener that handleSession registered
ChatFrameArriveOf(max, frames, fields) ==
    /\ arrivals < max
    /\ Len(queue) < MaxQueue
    /\ \E c \in Conns, f \in frames, t \in fields, usr \in fields :
          /\ conn[c] = "open"
          /\ resident /\ c \in Range(sessions)
          /\ f # "message" => t = "hi" /\ usr = "hi"
          /\ queue' = Append(queue,
                [Unit("message", "start",
                      ChatReq(arrivals + 1,
                              IF f = "malformed" THEN "malformed" ELSE "json",
                              f, t, usr))
                 EXCEPT !.who = c])
    /\ arrivals' = arrivals + 1
    /\ UNCHANGED <<now, resident, barrier, running, storage, alarms, sessions>>
    /\ UNCHANGED <<chatHist, logHist, notChat>>

\* the peer of an open connection sends a frame whose chat message has a
\* text and a username
ChatFrameArrive(max, frames) == ChatFrameArriveOf(max, frames, {"hi"})

\* the listener builds the message: text: data.text,
\* username: data.username || "Anonymous"
FrameMessage(req) ==
    [req EXCEPT !.username = IF Falsy(@) THEN "Anonymous" ELSE @]

\* the listener: JSON.parse(event.data); data.type === "message";
\* addMessage: await storage.get("messages")
ChatFrameStart ==
    /\ \E u \in running :
          /\ u.type = "message" /\ u.pc = "start"
          /\ u.req.body = "json" /\ u.req.type = "message"
          /\ running' = (running \ {u}) \cup
                {[u EXCEPT !.pc = "get", !.req = FrameMessage(u.req)]}
    /\ UNCHANGED <<rt_but_running, sessions, arrivals, chatHist, logHist, notChat>>

\* the listener: JSON of another type is ignored; JSON.parse throwing is
\* caught and answered with an error frame on the same connection
ChatFrameDrop ==
    /\ \E u \in running :
          /\ u.type = "message" /\ u.pc = "start"
          /\ u.req.body = "malformed" \/ u.req.type # "message"
          /\ running' = running \ {u}
          /\ outcome' = Outcome(u,
                IF u.req.body = "malformed" THEN "error" ELSE "ignored")
    /\ UNCHANGED <<rt_but_running, sessions, arrivals, chatHist>>
    /\ UNCHANGED <<accepted, fanout, lastJoin, notChat>>

\* a close listener that leaves the session set alone
SessionsKept(sess, who) == sess
\* the "close" and "error" listeners: this.sessions.delete(webSocket)
SessionsDelete(sess, who) == Without(sess, who)

\* the "close" listener: this.sessions.delete(webSocket)
ChatClose ==
    /\ \E u \in running :
          /\ u.type = "close"
          /\ running' = running \ {u}
          /\ sessions' = SessionsDelete(sessions, u.who)
          /\ conn' = [conn EXCEPT ![u.who] = "closed"]
    /\ UNCHANGED <<rt_but_running, arrivals, lastCast, logHist, notChat>>

\* a caller sends POST /chat/send with any body
ChatSendArriveAny ==
    /\ arrivals < MaxMessages
    /\ Len(queue) < MaxQueue
    /\ \E b \in Bodies, t \in Fields, usr \in Fields :
          /\ b = "malformed" => t = "hi" /\ usr = "hi"
          /\ queue' = Append(queue, Unit("send", "start",
                             ChatReq(arrivals + 1, b, "message", t, usr)))
    /\ arrivals' = arrivals + 1
    /\ UNCHANGED <<now, resident, barrier, running, storage, alarms, sessions>>
    /\ UNCHANGED <<chatHist, logHist, notChat>>

\* the peer of an open connection sends any frame, a chat message with any
\* text and username
ChatFrameArriveAny == ChatFrameArriveOf(MaxMessages, Frames, Fields)

\* a caller sends POST /chat/send with a text and a username, once more than
\* the history holds
LogSendArrive ==
    /\ arrivals < MaxLog
    /\ Len(queue) < MaxQueue
    /\ queue' = Append(queue, Unit("send", "start",
                       ChatReq(arrivals + 1, "json", "message", "hi", "hi")))
    /\ arrivals' = arrivals + 1
    /\ UNCHANGED <<now, resident, barrier, running, storage, alarms, sessions>>
    /\ UNCHANGED <<chatHist, logHist, notChat>>

\* one of the two clients of the long run opens its connection
LogConnect == ChatConnectOf({"A", "B"})

\* the peer of an open connection sends a chat message
LogFrameArrive == ChatFrameArrive(MaxLog, {"message"})

NextChat ==
    \/ Evict
    \/ ChatConnect
    \/ ChatSendArrive
    \/ ChatBreak
    \/ ChatCloseArrive
    \/ ChatConstruct
    \/ ChatDeliver
    \/ ChatJoin
    \/ ChatSendStart
    \/ ChatSendThrow
    \/ ChatSendPut
    \/ ChatSendCast
    \/ ChatClose

SpecChat == InitChat /\ [][NextChat]_vars

\* the ChatRoom under requests only (no connection breaks or closes)
NextChatRequests ==
    \/ Evict
    \/ ChatConnect
    \/ ChatSendArrive
    \/ ChatConstruct
    \/ ChatDeliver
    \/ ChatJoin
    \/ ChatSendStart
    \/ ChatSendThrow
    \/ ChatSendPut
    \/ ChatSendCast

\* the gate and the handlers keep going: whatever is enabled is eventually done
SpecChatFair ==
    /\ InitChat /\ [][NextChatRequests]_vars
    /\ WF_vars(ChatConstruct)
    /\ WF_vars(ChatDeliver)
    /\ WF_vars(ChatJoin)
    /\ WF_vars(ChatSendStart)
    /\ WF_vars(ChatSendThrow)
    /\ WF_vars(ChatSendPut)
    /\ WF_vars(ChatSendCast)

\* one of two clients opens its connection
SendConnect == ChatConnectOf({"A", "B"})

\* the ChatRoom under every kind of /chat/send body and frame, with storage
\* writes that may fail
NextChatSend ==
    \/ Evict
    \/ SendConnect
    \/ ChatSendArriveAny
    \/ ChatFrameArriveAny
    \/ ChatConstruct
    \/ ChatDeliver
    \/ ChatJoin
    \/ ChatSendStart
    \/ ChatSendReject
    \/ ChatSendThrow
    \/ ChatFrameStart
    \/ ChatFrameDrop
    \/ ChatSendPut
    \/ ChatSendPutFail
    \/ ChatSendCast

SpecChatSend == InitChat /\ [][NextChatSend]_vars

\* the ChatRoom under a long run of well-formed messages, over HTTP and over
\* its connections
NextChatLog ==
    \/ Evict
    \/ LogConnect
    \/ LogSendArrive
    \/ LogFrameArrive
    \/ ChatConstruct
    \/ ChatDeliver
    \/ ChatJoin
    \/ ChatSendStart
    \/ ChatFrameStart
    \/ ChatSendPut
    \/ ChatSendCast

SpecChatLog == InitChat /\ [][NextChatLog]_vars

-----------------------------------------------------------------------------
(* Counter *)

notCounter == <<mem, outstanding, initRuns, served, batcherHist, limiterHist,
                chatHist, routeHist, later>>

InitCounter == InitCommon /\ policy = "none"

Updates == {"increment", "decrement", "reset"}

\* (await storage.get("counter")) ?? 0
CounterValue(st) == IF "counter" \in DOMAIN st THEN st["counter"] ELSE 0

\* newValue of each route: current + 1, current - 1, 0
CounterNewValue(op, current) ==
    CASE op = "increment" -> current + 1
      [] op = "decrement" -> current - 1
      [] op = "reset" -> 0

\* a caller sends /counter/increment, /counter/decrement or POST
\* /counter/reset; the worker routes it to the identity "global-counter"
CounterArrive ==
    /\ arrivals < MaxUpdates
    /\ Len(queue) < MaxQueue
    /\ \E op \in Updates :
          queue' = Append(queue, Unit(op, IF op = "reset" THEN "put" ELSE "get",
                                      NoReq))
    /\ arrivals' = arrivals + 1
    /\ UNCHANGED <<now, resident, barrier, running, storage, alarms>>
    /\ UNCHANGED <<counterHist, notCounter>>

\* Counter.constructor: super(ctx, env)
CounterConstruct ==
    /\ ~resident
    /\ queue # <<>>
    /\ resident' = TRUE
    /\ UNCHANGED <<now, barrier, queue, running, storage, alarms>>
    /\ UNCHANGED <<arrivals, counterHist, notCounter>>

\* the gate delivers the request at the head of the queue; the order of
\* delivery is the serialization order, in which the ledger adds the updates up
CounterDeliver ==
    /\ GateFree
    /\ queue # <<>>
    /\ running' = running \cup {Head(queue)}
    /\ queue' = Tail(queue)
    /\ ledger' = (CASE Head(queue).type = "increment" -> ledger + 1
                    [] Head(queue).type = "decrement" -> ledger - 1
                    [] Head(queue).type = "reset" -> 0)
    /\ UNCHANGED <<now, resident, barrier, storage, alarms>>
    /\ UNCHANGED <<arrivals, reply, notCounter>>

\* const current = (await this.ctx.storage.get("counter")) ?? 0
CounterGet ==
    /\ \E u \in running :
          /\ u.pc = "get"
          /\ running' = (running \ {u}) \cup
                {[u EXCEPT !.pc = "put", !.cur = CounterValue(storage)]}
    /\ UNCHANGED <<rt_but_running, arrivals, counterHist, notCounter>>

\* await this.ctx.storage.put("counter", newValue); return { value: newValue }
CounterPut ==
    /\ \E u \in running :
          /\ u.pc = "put"
          /\ running' = running \ {u}
          /\ storage' = StoragePut(storage, "counter",
                                   CounterNewValue(u.type, u.cur))
          /\ reply' = [value |-> CounterNewValue(u.type, u.cur),
                       want |-> ledger]
    /\ UNCHANGED <<now, resident, barrier, queue, alarms>>
    /\ UNCHANGED <<arrivals, ledger, notCounter>>

NextCounter ==
    \/ Evict
    \/ CounterArrive
    \/ CounterConstruct
    \/ CounterDeliver
    \/ CounterGet
    \/ CounterPut

SpecCounter == InitCounter /\ [][NextCounter]_vars

-----------------------------------------------------------------------------
(* Session *)

notSession == <<mem, initRuns, served, policy, windowStart, limiterHist,
                chatHist, others>>

InitSession == InitCommon /\ policy = "none"

\* private readonly timeToLiveMs = 30 * 1000
timeToLiveMs == TTLSeconds * MsPerSecond

SessionRoutes == {"set", "get", "all", "info"}
SessionKeys == {1, 2}

\* ten seconds pass
SessionTick == AdvanceWithin(SECONDS * MsPerSecond, MaxSessionSeconds * MsPerSecond)

\* a caller sends a request to the Session identity: POST /session/set with
\* a body, GET /session/get?key=, GET /session/all, or any other path
SessionArrive ==
    /\ arrivals < MaxSessionRequests
    /\ Len(queue) < MaxQueue
    /\ \E r \in SessionRoutes, k \in SessionKeys, b \in Bodies :
          /\ r # "set" => (b = "json" /\ k = 1)
          /\ queue' = Append(queue, Unit(r, "setAlarm",
                                         [item |-> k, debounce |-> FALSE,
                                          body |-> b]))
    /\ arrivals' = arrivals + 1
    /\ UNCHANGED <<now, resident, barrier, running, storage, alarms>>
    /\ UNCHANGED <<outstanding, batch, lastArrival, notSession>>

\* Session.constructor: super(state, env)
SessionConstruct ==
    /\ ~resident
    /\ queue # <<>> \/ AlarmDue
    /\ resident' = TRUE
    /\ UNCHANGED <<now, barrier, queue, running, storage, alarms>>
    /\ UNCHANGED <<arrivals, outstanding, batch, lastArrival, notSession>>

\* the gate delivers the request at the head of the queue
SessionDeliver ==
    /\ GateFree
    /\ ~Overdue
    /\ queue # <<>>
    /\ running' = running \cup {Head(queue)}
    /\ queue' = Tail(queue)
    /\ UNCHANGED <<now, resident, barrier, storage, alarms>>
    /\ UNCHANGED <<arrivals, outstanding, batch, lastArrival, notSession>>

SessionUnits == {u \in running : u.type \in SessionRoutes}

\* a fetch that starts the TTL only when no alarm is pending
SessionTouchIfAbsent(al) ==
    IF GetAlarm(al) = None THEN SetAlarm(al, now + timeToLiveMs) ELSE al
\* await this.ctx.storage.setAlarm(Date.now() + this.timeToLiveMs)
SessionTouch(al) == SetAlarm(al, now + timeToLiveMs)

\* Session.fetch, up to its first await
SessionFetchAlarm ==
    /\ \E u \in SessionUnits :
          /\ u.pc = "setAlarm"
          /\ running' = (running \ {u}) \cup {[u EXCEPT !.pc = "route"]}
    /\ alarms' = SessionTouch(alarms)
    /\ outstanding' = IF alarms = {} /\ alarms' # {}
                      THEN outstanding + 1 ELSE outstanding
    /\ lastArrival' = now
    /\ batch' = IF lastArrival = None THEN {} ELSE batch
    /\ UNCHANGED <<now, resident, barrier, queue, storage>>
    /\ UNCHANGED <<arrivals, notSession>>

\* /session/set: data = await request.json(); await storage.put(key, value);
\* await getAlarm(); return success
SessionSetPut ==
    /\ \E u \in SessionUnits :
          /\ u.pc = "route" /\ u.type = "set" /\ u.req.body = "json"
          /\ running' = running \ {u}
          /\ storage' = StoragePut(storage, ToString(u.req.item), u.req.item)
          /\ batch' = batch \cup {ToString(u.req.item)}
    /\ UNCHANGED <<now, resident, barrier, queue, alarms>>
    /\ UNCHANGED <<arrivals, outstanding, lastArrival, notSession>>

\* /session/set with a body that is not JSON: request.json() throws
SessionSetThrow ==
    /\ \E u \in SessionUnits :
          /\ u.pc = "route" /\ u.type = "set" /\ u.req.body = "malformed"
          /\ running' = AfterThrow(running, u)
    /\ UNCHANGED <<rt_but_running, arrivals, outstanding, batch, lastArrival,
                   notSession>>

\* /session/get, /session/all and every other path: reads of storage and of
\* the alarm, and the response
SessionRead ==
    /\ \E u \in SessionUnits :
          /\ u.pc = "route" /\ u.type # "set"
          /\ running' = running \ {u}
    /\ UNCHANGED <<rt_but_running, arrivals, outstanding, batch, lastArrival,
                   notSession>>

\* the due alarm is delivered through the gate
SessionAlarmDeliver ==
    /\ GateFree
    /\ AlarmDue
    /\ running' = running \cup {[Unit("alarm", "deleteAll", NoReq)
                                   EXCEPT !.due = GetAlarm(alarms)]}
    /\ alarms' = AlarmClear(alarms)
    /\ outstanding' = outstanding - 1
    /\ UNCHANGED <<now, resident, barrier, queue, storage>>
    /\ UNCHANGED <<arrivals, batch, lastArrival, notSession>>

\* an alarm handler that only logs
SessionCleanupSkipped(st) == st
\* Session.alarm: await this.ctx.storage.deleteAll()
SessionCleanup(st) == StorageDeleteAll(st)

\* the callback resumes after deleteAll and returns
SessionAlarmDone ==
    /\ \E u \in running :
          /\ u.type = "alarm" /\ u.pc = "deleteAll"
          /\ running' = running \ {u}
    /\ storage' = SessionCleanup(storage)
    /\ lastArrival' = None
    /\ UNCHANGED <<now, resident, barrier, queue, alarms>>
    /\ UNCHANGED <<arrivals, outstanding, batch, notSession>>

NextSession ==
    \/ SessionTick
    \/ Evict
    \/ SessionArrive
    \/ SessionConstruct
    \/ SessionDeliver
    \/ SessionFetchAlarm
    \/ SessionSetPut
    \/ SessionSetThrow
    \/ SessionRead
    \/ SessionAlarmDeliver
    \/ SessionAlarmDone

SpecSession == InitSession /\ [][NextSession]_vars

-----------------------------------------------------------------------------
(* The worker's /rate-limit route and the RateLimiter identities it         *)
(* resolves.  Each identity owns its instance, its storage and its alarm    *)
(* (runtime, modelled from its specification); a request or a firing is     *)
(* one step of its identity.                                                *)

notRoute == <<resident, barrier, queue, running, storage, alarms, mem,
              outstanding, initRuns, served, batcherHist, limiterHist,
              chatHist, counterHist, later>>

InitRoute == InitCommon /\ policy = "none"

\* headers.get("CF-Connecting-IP") of a request without the header; null
\* and the empty string are both falsy
NoHeader == ""
Headers == {"203.0.113.1", "203.0.113.2", NoHeader}

\* a route that resolves one identity for every caller
LimiterRouteShared(h) == "default-ip"
\* const ip = request.headers.get("CF-Connecting-IP") || "default-ip";
\* env.RATE_LIMITER.idFromName(ip)
LimiterRoute(h) == IF h = NoHeader THEN "default-ip" ELSE h

\* an identity that has never been resolved
NoBucket == [resident |-> FALSE, tokens |-> None, alarms |-> {}]

BucketOf(bs, id) == IF id \in DOMAIN bs THEN bs[id] ELSE NoBucket

BucketPut(bs, id, b) ==
    [x \in DOMAIN bs \cup {id} |-> IF x = id THEN b ELSE bs[x]]

\* the instance a stub or the scheduler reaches; constructed when the
\* identity is not resident: this.tokens = RateLimiter.capacity
BucketWake(b) ==
    IF b.resident THEN b ELSE [b EXCEPT !.resident = TRUE, !.tokens = capacity]

\* RateLimiter.fetch on the instance of one identity
BucketFetch(b) ==
    LET w == BucketWake(b)
    IN  [w EXCEPT !.tokens = IF TokenAvailable(w.tokens)
                             THEN w.tokens - 1 ELSE w.tokens,
                  !.alarms = CheckAndSetAlarm(w.alarms)]

\* RateLimiter.alarm on the instance of one identity, its record cleared
BucketAlarm(b) ==
    LET w == BucketWake(b)
    IN  [w EXCEPT !.tokens = Min(capacity, w.tokens + milliseconds_for_updates),
                  !.alarms = CheckAndSetAlarm(AlarmClear(w.alarms))]

\* GET /rate-limit from some caller; an alarm whose time elapsed while the
\* identity was not resident fires before the request
RouteRequest ==
    /\ arrivals < MaxRouteRequests
    /\ \E h \in Headers :
          LET id == LimiterRoute(h)
              b == BucketOf(buckets, id)
          IN  /\ ~\E t \in b.alarms : t < now
              /\ buckets' = BucketPut(buckets, id, BucketFetch(b))
              /\ lastRoute' = [ip |-> h, id |-> id, before |-> buckets]
    /\ arrivals' = arrivals + 1
    /\ UNCHANGED <<now, notRoute>>

\* the due alarm of one identity fires
RouteAlarm ==
    /\ \E id \in DOMAIN buckets :
          /\ \E t \in buckets[id].alarms : t <= now
          /\ buckets' = BucketPut(buckets, id, BucketAlarm(buckets[id]))
    /\ lastRoute' = NoRoute
    /\ UNCHANGED <<now, arrivals, notRoute>>

\* the lifecycle manager evicts the idle instance of one identity
RouteEvict ==
    /\ \E id \in DOMAIN buckets :
          /\ buckets[id].resident
          /\ buckets' = BucketPut(buckets, id,
                [buckets[id] EXCEPT !.resident = FALSE, !.tokens = None])
    /\ lastRoute' = NoRoute
    /\ UNCHANGED <<now, arrivals, notRoute>>

\* half a refill interval passes, unless the alarm of a resident instance
\* is due
RouteTick ==
    /\ \A id \in DOMAIN buckets :
          buckets[id].resident => \A t \in buckets[id].alarms : t > now
    /\ Advance(RefillInterval \div 2)

NextRoute ==
    \/ RouteRequest
    \/ RouteAlarm
    \/ RouteEvict
    \/ RouteTick

SpecRoute == InitRoute /\ [][NextRoute]_vars

-----------------------------------------------------------------------------
(* Streamer and the worker's /streamer route.  A stream outlives the fetch  *)
(* that created it: its producer (the start callback driving dataSource)    *)
(* and its consumer (the worker's read loop) take turns at their awaits.    *)

notStreamer == <<rt, mem, life, batcherHist, limiterHist, chatHist,
                 counterHist, routeHist, logHist, locationHist, rpcHist,
                 kvHist>>

InitStreamer == InitCommon /\ policy = "none"

\* String(value): the UTF-16 code units of the decimal digits
RECURSIVE StringOf(_)
StringOf(n) ==
    IF n < 10 THEN <<DigitZero + n>>
    ELSE Append(StringOf(n \div 10), DigitZero + (n % 10))

\* new TextEncoder().encode(String(value) + "\n"); TextDecoderStream gives
\* the same code units back
Chunk(value) == Append(StringOf(value), NewLine)

WhiteSpace == {NewLine, Space}

\* String.prototype.trim
RECURSIVE Trim(_)
Trim(str) ==
    IF str = <<>> THEN str
    ELSE IF Head(str) \in WhiteSpace THEN Trim(Tail(str))
    ELSE IF str[Len(str)] \in WhiteSpace THEN Trim(SubSeq(str, 1, Len(str) - 1))
    ELSE str

\* a generator that never looks at the signal
LoopContinuesAlways(aborted) == TRUE
\* dataSource: while (!signal.aborted)
LoopContinues(aborted) == ~aborted

\* a consumer that reads one value more before it cancels
CancelDueLate(i) == i > WorkerLimit
\* the worker: if (i >= 5) { await reader.cancel(); break; }
CancelDue(i) == i >= WorkerLimit

\* GET /streamer/stream: Streamer.fetch creates the AbortController and the
\* ReadableStream; start() closes the stream and aborts when the request was
\* already cancelled, otherwise it begins to iterate dataSource.  The worker
\* gets the response and a reader with data = [] and i = 0.
StreamOpenUpTo(max) ==
    /\ Len(streams) < max
    /\ \E cancelled \in BOOLEAN :
          streams' = Append(streams,
              [requestAborted |-> cancelled,
               aborted |-> cancelled,
               closed |-> cancelled,
               gen |-> IF cancelled THEN "unstarted" ELSE "running",
               counter |-> 0,
               chunks |-> <<>>,
               i |-> 0,
               data |-> <<>>,
               cancels |-> 0,
               pc |-> "reading"])
    /\ UNCHANGED notStreamer

StreamOpen == StreamOpenUpTo(MaxStreams)

\* dataSource resumes (at its start, or when its one-second timer fires):
\* while the signal is not aborted it yields counter++, which start()
\* enqueues, and sleeps again; once aborted it leaves the loop and returns
StreamProduceUpTo(id, max) ==
    /\ id \in DOMAIN streams
    /\ streams[id].gen = "running"
    /\ IF LoopContinues(streams[id].aborted)
       THEN /\ streams[id].counter < max
            /\ streams' = [streams EXCEPT
                   ![id].chunks = Append(@, Chunk(streams[id].counter)),
                   ![id].counter = @ + 1]
       ELSE streams' = [streams EXCEPT ![id].gen = "ended"]
    /\ UNCHANGED notStreamer

StreamProduce(id) == StreamProduceUpTo(id, MaxProduced)

\* the worker's loop, at its top with i >= 5: await reader.cancel(), which
\* runs the stream's cancel(): abortController.abort(); break; return the
\* collected values
WorkerCancel(id) ==
    /\ id \in DOMAIN streams
    /\ streams[id].pc = "reading"
    /\ CancelDue(streams[id].i)
    /\ streams' = [streams EXCEPT ![id].cancels = @ + 1,
                                  ![id].aborted = TRUE,
                                  ![id].closed = TRUE,
                                  ![id].chunks = <<>>,
                                  ![id].pc = "returned"]
    /\ UNCHANGED notStreamer

\* the worker's loop: await reader.read() resolves with the next chunk, or
\* with done on a closed stream; a chunk that trims to something is pushed
\* and counted; on done the loop breaks and the values are returned
WorkerRead(id) ==
    /\ id \in DOMAIN streams
    /\ streams[id].pc = "reading"
    /\ ~CancelDue(streams[id].i)
    /\ IF streams[id].chunks # <<>>
       THEN LET trimmed == Trim(Head(streams[id].chunks))
            IN  streams' = [streams EXCEPT
                    ![id].chunks = Tail(@),
                    ![id].data = IF trimmed # <<>> THEN Append(@, trimmed) ELSE @,
                    ![id].i = IF trimmed # <<>> THEN @ + 1 ELSE @]
       ELSE /\ streams[id].closed
            /\ streams' = [streams EXCEPT ![id].pc = "returned"]
    /\ UNCHANGED notStreamer

NextStreamer ==
    \/ StreamOpen
    \/ \E id \in 1..MaxStreams : StreamProduce(id)
    \/ \E id \in 1..MaxStreams : WorkerCancel(id)
    \/ \E id \in 1..MaxStreams : WorkerRead(id)

SpecStreamer == InitStreamer /\ [][NextStreamer]_vars

\* timers fire and pending reads resolve: every producer and every consumer
\* that can take its next step eventually does
\* fewer streams, each with a producer that may run further ahead
StreamOpenFew == StreamOpenUpTo(MaxFairStreams)

StreamProduceFar(id) == StreamProduceUpTo(id, MaxFairProduced)

NextStreamerFew ==
    \/ StreamOpenFew
    \/ \E id \in 1..MaxFairStreams : StreamProduceFar(id)
    \/ \E id \in 1..MaxFairStreams : WorkerCancel(id)
    \/ \E id \in 1..MaxFairStreams : WorkerRead(id)

SpecStreamerFair ==
    /\ InitStreamer /\ [][NextStreamerFew]_vars
    /\ \A id \in 1..MaxFairStreams :
          /\ WF_vars(StreamProduceFar(id))
          /\ WF_vars(WorkerCancel(id))
          /\ WF_vars(WorkerRead(id))

-----------------------------------------------------------------------------
(* Location *)

notLocation == <<mem, outstanding, initRuns, served, batcherHist, limiterHist,
                 chatHist, counterHist, routeHist, logHist, streamHist,
                 rpcHist, kvHist>>

InitLocation == InitCommon /\ policy = "none"

\* request.cf?.city: absent, empty, or the name of a city
Cities == {Missing, "", "Lisbon", "Osaka"}

\* (request.cf?.city as string | undefined) || "unknown"
City(c) == IF c \in {Missing, ""} THEN "unknown" ELSE c

\* a caller sends /location; the worker routes it to the identity "A"
LocationArrive ==
    /\ arrivals < MaxVisits
    /\ Len(queue) < MaxQueue
    /\ \E c \in Cities :
          queue' = Append(queue, [Unit("fetch", "start", NoReq) EXCEPT !.who = c])
    /\ arrivals' = arrivals + 1
    /\ UNCHANGED <<now, resident, barrier, running, storage, alarms>>
    /\ UNCHANGED <<locationHist, notLocation>>

\* a constructor that leaves the field as it finds it
LocationConstructorUnset(cur) == cur
\* Location.constructor: this.location = null
LocationConstructor(cur) == Null

\* resolve of a non-resident identity
LocationConstruct ==
    /\ ~resident
    /\ queue # <<>>
    /\ resident' = TRUE
    /\ location' = LocationConstructor(location)
    /\ visits' = <<>>
    /\ UNCHANGED <<now, barrier, queue, running, storage, alarms>>
    /\ UNCHANGED <<arrivals, answer, notLocation>>

\* the gate delivers the request at the head of the queue
LocationDeliver ==
    /\ GateFree
    /\ queue # <<>>
    /\ running' = running \cup {Head(queue)}
    /\ queue' = Tail(queue)
    /\ UNCHANGED <<now, resident, barrier, storage, alarms>>
    /\ UNCHANGED <<arrivals, locationHist, notLocation>>

\* Location.fetch: the "first request" text if this.location === null, else
\* the text with Previous Location: this.location; this.location = city
LocationFetch ==
    /\ \E u \in running :
          /\ running' = running \ {u}
          /\ answer' = [first |-> location = Null,
                        previous |-> location,
                        seen |-> Len(visits),
                        prior |-> IF visits = <<>> THEN ""
                                  ELSE visits[Len(visits)]]
          /\ location' = City(u.who)
          /\ visits' = Append(visits, City(u.who))
    /\ UNCHANGED <<rt_but_running, arrivals, notLocation>>

NextLocation ==
    \/ Evict
    \/ LocationArrive
    \/ LocationConstruct
    \/ LocationDeliver
    \/ LocationFetch

SpecLocation == InitLocation /\ [][NextLocation]_vars

-----------------------------------------------------------------------------
(* MyDurableObject and the worker's /rpc route *)

notRpc == <<mem, outstanding, initRuns, served, batcherHist, limiterHist,
            chatHist, counterHist, routeHist, logHist, streamHist,
            locationHist, kvHist>>

InitRpc == InitCommon /\ policy = "none"

\* one millisecond passes
RpcTick == AdvanceWithin(1, MaxRpcMillis)

\* Date.prototype.toISOString, as far as the model's clock goes: the seconds
\* and the milliseconds of the instant
ToISOString(t) == <<t \div MsPerSecond, t % MsPerSecond>>

\* a caller sends GET /rpc; the worker resolves idFromName(url.pathname) and
\* calls stub.setMetaData, the first of its four calls
RpcArrive ==
    /\ arrivals < MaxRpcRequests
    /\ Len(queue) < MaxQueue
    /\ queue' = Append(queue, Unit("rpc", "setMetaData", NoReq))
    /\ arrivals' = arrivals + 1
    /\ UNCHANGED <<now, resident, barrier, running, storage, alarms>>
    /\ UNCHANGED <<rpcHist, notRpc>>

\* MyDurableObject.constructor: this.initializedAt = new Date().toISOString()
RpcConstruct ==
    /\ ~resident
    /\ queue # <<>>
    /\ resident' = TRUE
    /\ initializedAt' = ToISOString(now)
    /\ stamps' = <<>>
    /\ UNCHANGED <<now, barrier, queue, running, storage, alarms>>
    /\ UNCHANGED <<arrivals, notRpc>>

\* the gate delivers the call at the head of the queue
RpcDeliver ==
    /\ GateFree
    /\ queue # <<>>
    /\ running' = running \cup {Head(queue)}
    /\ queue' = Tail(queue)
    /\ UNCHANGED <<now, resident, barrier, storage, alarms>>
    /\ UNCHANGED <<arrivals, rpcHist, notRpc>>

\* setMetaData: await storage.put("doIdentifier", doIdentifier); return the
\* RpcDO, on which the worker calls computeMessage
RpcSetMetaData ==
    /\ \E u \in running :
          /\ u.type = "rpc" /\ u.pc = "setMetaData"
          /\ running' = running \ {u}
          /\ queue' = Append(queue, [u EXCEPT !.pc = "computeMessage"])
    /\ storage' = StoragePut(storage, "doIdentifier", "/rpc")
    /\ UNCHANGED <<now, resident, barrier, alarms>>
    /\ UNCHANGED <<arrivals, rpcHist, notRpc>>

\* computeMessage: await storage.get("doIdentifier"); return the greeting;
\* the worker calls simpleGreeting
RpcComputeMessage ==
    /\ \E u \in running :
          /\ u.type = "rpc" /\ u.pc = "computeMessage"
          /\ running' = running \ {u}
          /\ queue' = Append(queue, [u EXCEPT !.pc = "simpleGreeting"])
    /\ UNCHANGED <<now, resident, barrier, storage, alarms>>
    /\ UNCHANGED <<arrivals, rpcHist, notRpc>>

\* simpleGreeting: return the greeting; the worker calls getInitializedAt
RpcSimpleGreeting ==
    /\ \E u \in running :
          /\ u.type = "rpc" /\ u.pc = "simpleGreeting"
          /\ running' = running \ {u}
          /\ queue' = Append(queue, [u EXCEPT !.pc = "getInitializedAt"])
    /\ UNCHANGED <<now, resident, barrier, storage, alarms>>
    /\ UNCHANGED <<arrivals, rpcHist, notRpc>>

\* a getter that takes the time of the call
GetInitializedAtNow(field, t) == ToISOString(t)
\* getInitializedAt: return this.initializedAt
GetInitializedAt(field, t) == field

\* getInitializedAt returns; the worker responds
RpcGetInitializedAt ==
    /\ \E u \in running :
          /\ u.type = "rpc" /\ u.pc = "getInitializedAt"
          /\ running' = running \ {u}
    /\ stamps' = Append(stamps, GetInitializedAt(initializedAt, now))
    /\ UNCHANGED <<rt_but_running, arrivals, initializedAt, notRpc>>

NextRpc ==
    \/ Evict
    \/ RpcTick
    \/ RpcArrive
    \/ RpcConstruct
    \/ RpcDeliver
    \/ RpcSetMetaData
    \/ RpcComputeMessage
    \/ RpcSimpleGreeting
    \/ RpcGetInitializedAt

SpecRpc == InitRpc /\ [][NextRpc]_vars

-----------------------------------------------------------------------------
(* KVStore: PUT /kv and GET /stats *)

notKv == <<mem, outstanding, initRuns, served, batcherHist, limiterHist,
           chatHist, counterHist, routeHist, logHist, streamHist,
           locationHist, rpcHist>>

InitKv == InitCommon /\ policy = "none"

KvKeys == {Missing, "", "a", "b"}
KvValues == {Missing, "1"}

\* a PUT /kv request: its body (JSON or not) and the body's key and value
KvReq(n, b, k, v) == [item |-> n, body |-> b, key |-> k, value |-> v]

\* a caller sends PUT /kv-store/kv; the worker strips the prefix and forwards
KvPutArrive ==
    /\ arrivals < MaxKvRequests
    /\ Len(queue) < MaxQueue
    /\ \E b \in Bodies, k \in KvKeys, v \in KvValues :
          /\ b = "malformed" => (k = Missing /\ v = Missing)
          /\ queue' = Append(queue,
                             Unit("put", "json", KvReq(arrivals + 1, b, k, v)))
    /\ arrivals' = arrivals + 1
    /\ UNCHANGED <<now, resident, barrier, running, storage, alarms>>
    /\ UNCHANGED <<kvHist, notKv>>

\* a caller sends GET /kv-store/stats
KvStatsArrive ==
    /\ arrivals < MaxKvRequests
    /\ Len(queue) < MaxQueue
    /\ queue' = Append(queue,
                       Unit("stats", "get",
                            KvReq(arrivals + 1, "", Missing, Missing)))
    /\ arrivals' = arrivals + 1
    /\ UNCHANGED <<now, resident, barrier, running, storage, alarms>>
    /\ UNCHANGED <<kvHist, notKv>>

\* KVStore.constructor: super(ctx, env)
KvConstruct ==
    /\ ~resident
    /\ queue # <<>>
    /\ resident' = TRUE
    /\ UNCHANGED <<now, barrier, queue, running, storage, alarms>>
    /\ UNCHANGED <<arrivals, kvHist, notKv>>

\* the gate delivers the request at the head of the queue
KvDeliver ==
    /\ GateFree
    /\ queue # <<>>
    /\ running' = running \cup {Head(queue)}
    /\ queue' = Tail(queue)
    /\ UNCHANGED <<now, resident, barrier, storage, alarms>>
    /\ UNCHANGED <<arrivals, kvHist, notKv>>

\* if (!body.key || !body.value)
KvRejected(key, value) == Falsy(key) \/ Falsy(value)

\* await request.json() throws (caught: 400), or key or value is missing or
\* empty: 400
KvPutReject ==
    /\ \E u \in running :
          /\ u.type = "put" /\ u.pc = "json"
          /\ u.req.body = "malformed" \/ KvRejected(u.req.key, u.req.value)
          /\ running' = running \ {u}
    /\ UNCHANGED <<rt_but_running, arrivals, kvHist, notKv>>

\* the body is accepted; await this.env.KV_CACHE.put(body.key, body.value)
KvPutCache ==
    /\ \E u \in running :
          /\ u.type = "put" /\ u.pc = "json"
          /\ u.req.body = "json" /\ ~KvRejected(u.req.key, u.req.value)
          /\ running' = (running \ {u}) \cup {[u EXCEPT !.pc = "get"]}
    /\ UNCHANGED <<rt_but_running, arrivals, kvHist, notKv>>

\* (await storage.get(key)) || otherwise; the values stored under the
\* statistics keys are counts from 1 and accepted keys, none of them falsy
StoredOr(st, key, otherwise) ==
    IF key \in DOMAIN st THEN st[key] ELSE otherwise

\* writeCount = (await storage.get("write_count")) || 0
KvPutGet ==
    /\ \E u \in running :
          /\ u.type = "put" /\ u.pc = "get"
          /\ running' = (running \ {u}) \cup
                {[u EXCEPT !.pc = "count",
                           !.cur = StoredOr(storage, "write_count", 0)]}
    /\ UNCHANGED <<rt_but_running, arrivals, kvHist, notKv>>

\* await storage.put("write_count", writeCount + 1)
KvPutCount ==
    /\ \E u \in running :
          /\ u.type = "put" /\ u.pc = "count"
          /\ running' = (running \ {u}) \cup {[u EXCEPT !.pc = "last"]}
          /\ storage' = StoragePut(storage, "write_count", u.cur + 1)
    /\ UNCHANGED <<now, resident, barrier, queue, alarms>>
    /\ UNCHANGED <<arrivals, kvHist, notKv>>

\* await storage.put("last_key_written", body.key); return success
KvPutLast ==
    /\ \E u \in running :
          /\ u.type = "put" /\ u.pc = "last"
          /\ running' = running \ {u}
          /\ storage' = StoragePut(storage, "last_key_written", u.req.key)
          /\ acks' = Append(acks, u.req.key)
    /\ UNCHANGED <<now, resident, barrier, queue, alarms>>
    /\ UNCHANGED <<arrivals, stats, notKv>>

\* the awaited KV or storage operation of a PUT fails: the store is left as
\* it is, the failure reaches the handler's catch, which returns 400
KvPutFail ==
    /\ \E u \in running :
          /\ u.type = "put" /\ u.pc \in {"json", "get", "count", "last"}
          /\ u.pc = "json"
                => (u.req.body = "json" /\ ~KvRejected(u.req.key, u.req.value))
          /\ running' = running \ {u}
    /\ UNCHANGED <<rt_but_running, arrivals, kvHist, notKv>>

\* GET /stats: the four storage reads; the response's statistics, next to the
\* PUT requests answered with success so far
KvStats ==
    /\ \E u \in running :
          /\ u.type = "stats"
          /\ running' = running \ {u}
    /\ stats' = [total_writes |-> StoredOr(storage, "write_count", 0),
                 last_key_written |->
                     StoredOr(storage, "last_key_written", Null),
                 acked |-> Len(acks),
                 last |-> IF acks = <<>> THEN Null ELSE acks[Len(acks)]]
    /\ UNCHANGED <<rt_but_running, arrivals, acks, notKv>>

\* a storage read of GET /stats fails: the handler throws
KvStatsFail ==
    /\ \E u \in running :
          /\ u.type = "stats"
          /\ running' = running \ {u}
    /\ UNCHANGED <<rt_but_running, arrivals, kvHist, notKv>>

NextKv ==
    \/ Evict
    \/ KvPutArrive
    \/ KvStatsArrive
    \/ KvConstruct
    \/ KvDeliver
    \/ KvPutReject
    \/ KvPutCache
    \/ KvPutGet
    \/ KvPutCount
    \/ KvPutLast
    \/ KvPutFail
    \/ KvStats
    \/ KvStatsFail

SpecKv == InitKv /\ [][NextKv]_vars

-----------------------------------------------------------------------------
(* Properties of the Batcher *)

FetchUnits == {u \in running : u.type = "fetch"}
FiringUnits == {u \in running : u.type = "alarm" /\ u.pc = "deleteAll"}
InitUnits == {u \in running : u.type = "init"}
Keyed(n) == {ToString(i) : i \in 1..n}

\* C1: at most one alarm is pending in every reachable state: every alarm
\* armed from unset is either still the one pending alarm or has fired once,
\* and a setAlarm issued while an alarm is pending (a debounce arrival)
\* replaces the due time by its own.
C1_SingleAlarm ==
    /\ Cardinality(alarms) <= 1
    /\ outstanding = Cardinality(alarms)
    /\ (policy = "debouncing" /\ alarms # {})
          => alarms = {lastArrival + MsPerSecond * SECONDS}

\* a debounce arrival has just set the alarm again while one was pending
C1_Witness ==
    /\ policy = "debouncing"
    /\ batch # {}
    /\ \E u \in FetchUnits : u.pc = "put" /\ u.req.debounce
    /\ alarms = {now + MsPerSecond * SECONDS}
    /\ now > 0

\* C2: no two units of work (request, alarm firing, setup barrier) of the
\* identity are executing at the same time, suspended at an await or not.
C2_OneUnitAtATime == Cardinality(running) <= 1

\* a fetch is suspended at an await while another request waits at the gate
C2_Witness ==
    /\ \E u \in FetchUnits : u.pc \in {"text", "put"}
    /\ queue # <<>>

\* C3 (as claimed): batching arrivals: the first arrival at t0 sets the
\* deadline t0+10s, later arrivals leave it alone, and the one firing is for
\* that deadline, not before it, and processes every item acknowledged
\* before it.
C3_BatchingWindow ==
    policy = "batching" =>
        /\ alarms # {} => alarms = {windowStart + MsPerSecond * SECONDS}
        /\ outstanding = Cardinality(alarms)
        /\ \A u \in FiringUnits :
              /\ u.due = windowStart + MsPerSecond * SECONDS
              /\ now >= u.due
              /\ batch \subseteq u.items

\* C4 (as claimed): debounce arrivals: every arrival resets the deadline to
\* its own time + 10s, nothing fires before 10s after the last arrival, and
\* the one firing processes every item acknowledged before it.
C4_DebounceWindow ==
    policy = "debouncing" =>
        /\ alarms # {} => alarms = {lastArrival + MsPerSecond * SECONDS}
        /\ outstanding = Cardinality(alarms)
        /\ \A u \in FiringUnits :
              /\ u.due = lastArrival + MsPerSecond * SECONDS
              /\ now >= u.due
              /\ batch \subseteq u.items

\* C5 (as claimed): an instance constructed over storage holding the keys
\* "1".."n" has count = n once its initialisation has run, before it handles
\* its first request or alarm.
C5_CountRestored ==
    (/\ resident /\ initRuns = 1 /\ ~served
     /\ DOMAIN storage = Keyed(Cardinality(DOMAIN storage)))
        => count = Cardinality(DOMAIN storage)

\* C8: the constructor's initialisation runs to completion exactly once per
\* instance, and no fetch or alarm of the instance begins before it has.
C8_SetupBarrier ==
    resident =>
        /\ initRuns <= 1
        /\ initRuns = 1 <=> InitUnits = {}
        /\ (served \/ Delivered # {}) => initRuns = 1

\* a request that arrived while the initialisation was suspended on its
\* storage read has begun after it, with count restored from storage
C8_Witness ==
    /\ \E u \in FetchUnits : u.pc = "start"
    /\ initRuns = 1
    /\ count > 0
    /\ queue # <<>>

\* C11 (as claimed): a pending alarm is not lost by eviction: as long as
\* acknowledged items wait, an alarm is pending or its firing is in progress,
\* also across eviction and reconstruction; no request is handled while an
\* alarm whose due time has elapsed still waits; and the firing processes
\* every item stored before it, those stored before an eviction included.
C11_AlarmDurable ==
    /\ batch # {} => (alarms # {} \/ \E u \in running : u.type = "alarm")
    /\ FetchUnits # {} => ~Overdue
    /\ \A u \in FiringUnits : now >= u.due /\ batch \subseteq u.items


-----------------------------------------------------------------------------
(* Properties of the RateLimiter *)

AlarmUnits == {u \in running : u.type = "alarm"}

C10_AlarmProtocol ==
    \A u \in AlarmUnits :
        /\ u.pc \in {"refill", "checkAlarm"} => alarms = {}
        /\ u.pc = "done" =>
              /\ u.set = now + RefillInterval
              /\ alarms = IF u.set = None THEN {} ELSE {u.set}

\* a refill callback has completed after a request was rejected
C10_Witness ==
    /\ \E u \in AlarmUnits : u.pc = "done" /\ u.due <= now
    /\ tokens = capacity
    /\ alarms = {now + RefillInterval}

\* C17: a request is allowed (its unit completes with 200) exactly when
\* tokens > 0 at the moment it is handled, and then tokens decreases by one;
\* otherwise it goes on to the 429 and tokens stays as it is, also while the
\* 429 is built.
C17_Decision ==
    [][/\ (\E u \in FetchUnits : u.pc = "checkAlarm" /\ u \notin running') =>
            IF tokens > 0
            THEN tokens' = tokens - 1 /\ running' = {}
            ELSE tokens' = tokens /\ \E v \in running' : v.pc = "reject"
       /\ (\E u \in FetchUnits : u.pc = "reject" /\ u \notin running') =>
            tokens' = tokens]_vars

\* after a refill the bucket has been emptied again and a request is
\* rejected with the tokens left at 0
C17_Witness ==
    /\ handled = None
    /\ tokens = 0
    /\ \E u \in FetchUnits : u.pc = "reject"

C19_ReadmeRefill ==
    [][/\ (\E u \in AlarmUnits : u.pc = "refill" /\ u \notin running') =>
            tokens' = Min(capacity, tokens + ReadmeRefillTokens)
       /\ (\E u \in AlarmUnits : u.pc = "checkAlarm" /\ u \notin running') =>
            alarms' = {now + ReadmeRefillSeconds * MsPerSecond}]_vars

-----------------------------------------------------------------------------
(* Properties of the ChatRoom *)

\* C6: broadcast(payload, exclude) delivers to every session of the set
\* except exclude whose connection works, removes exactly the sessions whose
\* delivery failed, and does not raise the failure to its caller.
C6_Broadcast ==
    LET target == Range(lastCast.members) \ {lastCast.exclude}
    IN  /\ lastCast.delivered = target \ lastCast.failing
        /\ lastCast.after =
              SelectSeq(lastCast.members,
                        LAMBDA c : c \notin (target \cap lastCast.failing))
        /\ ~lastCast.threw

\* three sessions, one excluded, a failed delivery and a successful one
C6_Witness ==
    /\ Len(lastCast.members) = 3
    /\ lastCast.exclude # ""
    /\ lastCast.delivered # {}
    /\ Len(lastCast.after) = 2

\* C9: eviction and reconstruction change neither the durable storage (the
\* message history) nor the alarm record, and the reconstructed ChatRoom
\* starts with an empty session set.
C9_EvictionFrame ==
    [][/\ (~resident \/ ~resident') => (storage' = storage /\ alarms' = alarms)
       /\ (~resident /\ resident') => sessions' = <<>>]_vars

\* an instance reconstructed after the eviction of one that had a session
\* and a stored history
C9_Witness ==
    /\ resident
    /\ sessions = <<>>
    /\ History(storage) # <<>>
    /\ \E c \in Conns : conn[c] = "evicted"

\* C12: a /chat/send whose body is not JSON fails without blocking the
\* identity: units still execute one at a time, and once a unit has failed
\* every request queued behind it, and every later one, is executed: the gate
\* drains.
C12_GateSurvivesFailure ==
    /\ [](Cardinality(running) <= 1)
    /\ (failed # {}) ~> (queue = <<>> /\ running = {})

\* a send queued behind a failed one has been executed: its message is stored
C12_Witness ==
    \E n \in 2..MaxMessages :
        /\ (n - 1) \in failed
        /\ n \in Range(History(storage))

\* the last n elements of a sequence
LastN(q, n) == IF Len(q) <= n THEN q ELSE SubSeq(q, Len(q) - n + 1, Len(q))

\* C21: the stored "messages" list holds exactly the min(n, 100) most
\* recently accepted messages, in acceptance order, n being the number of
\* messages accepted so far over HTTP or a connection.
C21_BoundedLog == History(storage) = LastN(accepted, HistoryLimit)

\* more than a hundred messages have been accepted, over both paths, and the
\* oldest has left the history
C21_Witness ==
    /\ Len(accepted) > HistoryLimit
    /\ Len(History(storage)) = HistoryLimit
    /\ History(storage)[1] = 2
    /\ outcome.via = "message"

\* C22: when a connection is accepted, the joiner is sent one "connected"
\* confirmation whose sessionCount is the size of the set including the
\* joiner; every other member whose connection is live is sent one
\* "user-joined" announcement with that same count (a member whose connection
\* has failed can be sent nothing and is removed); the joiner is sent no
\* "user-joined" announcement.
C22_Join ==
    lastCast.exclude # "" =>
        /\ lastJoin.who = lastCast.exclude
        /\ lastJoin.who \in Range(lastCast.members)
        /\ lastJoin.connected = Cardinality(Range(lastCast.members))
        /\ lastJoin.announced = lastJoin.connected
        /\ lastCast.delivered =
              (Range(lastCast.members) \ {lastJoin.who}) \ lastCast.failing
        /\ lastJoin.who \notin lastCast.delivered

\* a third client joined two live members: both were told the count 3
C22_Witness ==
    /\ lastCast.exclude # ""
    /\ lastJoin.connected = 3
    /\ Cardinality(lastCast.delivered) = 2

\* C28: a chat message is handed to broadcast only after its history write
\* has completed; a message whose write failed is never broadcast, and the
\* /chat/send that carried it is not answered with success.
C28_PersistFirst ==
    /\ fanout \subseteq Range(accepted)
    /\ \A u \in MessageUnits : u.req.item \notin fanout
    /\ \A n \in failed : n \notin fanout /\ n \notin Range(accepted)
    /\ outcome.result = "200" =>
          outcome.item \notin failed /\ outcome.item \in Range(accepted)
    /\ outcome.item \in failed => outcome.result \in {"threw", "error"}

\* the write of a well-formed /chat/send failed while a connection was open
C28_Witness ==
    /\ outcome.via = "send" /\ outcome.body = "json"
    /\ outcome.result = "threw"
    /\ outcome.item \in failed
    /\ resident /\ sessions # <<>>

\* C29: POST /chat/send with a missing or empty text or username is answered
\* 400 and changes nothing: it never reaches addMessage, its message is
\* neither stored nor broadcast, and the step that answers leaves the stored
\* history, the sessions and what they have received as they are.
C29_Rejects ==
    /\ [](/\ \A u \in running :
                (/\ u.type = "send" /\ u.req.body = "json"
                 /\ (u.req.text \in {Missing, ""} \/ u.req.username \in {Missing, ""}))
                => u.pc = "start"
          /\ (/\ outcome.via = "send" /\ outcome.body = "json"
              /\ (outcome.text \in {Missing, ""} \/ outcome.username \in {Missing, ""}))
             => /\ outcome.result = "400"
                /\ outcome.item \notin Range(accepted)
                /\ outcome.item \notin fanout)
    /\ [][(outcome' # outcome /\ outcome'.result = "400") =>
             /\ storage' = storage
             /\ sessions' = sessions
             /\ lastCast' = lastCast]_vars

\* a /chat/send without a text was answered 400 while a message was stored
\* and a connection open
C29_Witness ==
    /\ outcome.result = "400"
    /\ outcome.text = Missing
    /\ History(storage) # <<>>
    /\ resident /\ sessions # <<>>

-----------------------------------------------------------------------------
(* Properties of the Counter *)

\* C13: no update to the counter is lost: whenever no update is executing,
\* the stored value is what the increments, decrements and resets delivered
\* so far add up to in their serialization order, and every response reports
\* the value right after its own update.
C13_Linearizable ==
    /\ running = {} => CounterValue(storage) = ledger
    /\ reply.value = reply.want

\* a decrement is suspended between its read and its write while another
\* request waits, after an increment was answered with 1
C13_Witness ==
    /\ \E u \in running : u.type = "decrement" /\ u.pc = "put"
    /\ queue # <<>>
    /\ reply = [value |-> 1, want |-> 1]

-----------------------------------------------------------------------------
(* Properties of the Session *)

\* C14: every request handled by the Session, whatever its route and also
\* when it fails, leaves exactly one pending alarm, due 30 s after the time
\* the request was handled: from its setAlarm on and until the alarm fires,
\* the one pending due time is that of the latest request.
C14_TtlReset ==
    /\ Cardinality(alarms) <= 1
    /\ outstanding = Cardinality(alarms)
    /\ \A u \in SessionUnits :
          u.pc = "route" => (lastArrival = now /\ alarms = {now + timeToLiveMs})
    /\ (lastArrival # None /\ AlarmUnits = {})
          => alarms = {lastArrival + timeToLiveMs}

\* a request that will fail has overwritten the due time left by an earlier
\* request
C14_Witness ==
    /\ \E u \in SessionUnits :
          u.pc = "route" /\ u.type = "set" /\ u.req.body = "malformed"
    /\ now > 0
    /\ storage # <<>>
    /\ alarms = {now + timeToLiveMs}

\* C15: the alarm that fires after 30 s without a request deletes every
\* stored key: from the end of the firing until the next request the storage
\* is empty and no alarm is pending; and no request is handled while an
\* alarm whose due time has elapsed still waits to fire.
C15_Cleanup ==
    /\ lastArrival = None => (DOMAIN storage = {} /\ alarms = {})
    /\ SessionUnits # {} => ~Overdue

\* keys were stored, the alarm has fired, and nothing is left
C15_Witness ==
    /\ lastArrival = None
    /\ batch # {}
    /\ DOMAIN storage = {}
    /\ alarms = {}
    /\ running = {}

\* C16: while consecutive requests are less than 30 s apart the alarm does
\* not fire and no stored key is deleted: a firing happens only 30 s or more
\* after the latest request, and until then every key stored is still there.
C16_ActivePersists ==
    /\ \A u \in AlarmUnits :
          /\ u.due = lastArrival + timeToLiveMs
          /\ now >= lastArrival + timeToLiveMs
    /\ (lastArrival # None /\ AlarmUnits = {}) => batch \subseteq DOMAIN storage

\* a session kept alive past the deadline of its first request
C16_Witness ==
    /\ now >= 2 * timeToLiveMs
    /\ now < lastArrival + timeToLiveMs
    /\ batch = {ToString(k) : k \in SessionKeys}
    /\ DOMAIN storage = batch
    /\ arrivals = MaxSessionRequests

-----------------------------------------------------------------------------
(* Properties of the /rate-limit route *)

\* C20: each client IP gets its own RateLimiter identity: right after a
\* /rate-limit request, for every client IP B other than the request's, the
\* identity of B is not the one the request reached, and B's bucket (tokens
\* and alarm) is what it was before the request.
C20_OwnBucket ==
    lastRoute # NoRoute =>
        \A B \in Headers \ {NoHeader, lastRoute.ip} :
            /\ LimiterRoute(B) # lastRoute.id
            /\ BucketOf(buckets, LimiterRoute(B))
                 = BucketOf(lastRoute.before, LimiterRoute(B))

\* a request of one IP took a token from its own bucket while the bucket of
\* another IP was resident, partly used and had its alarm pending
C20_Witness ==
    /\ lastRoute # NoRoute /\ lastRoute.ip # NoHeader
    /\ lastRoute.id \in DOMAIN lastRoute.before
    /\ buckets[lastRoute.id].tokens = lastRoute.before[lastRoute.id].tokens - 1
    /\ \E B \in Headers \ {NoHeader, lastRoute.ip} :
          /\ LimiterRoute(B) \in DOMAIN lastRoute.before
          /\ lastRoute.before[LimiterRoute(B)].resident
          /\ lastRoute.before[LimiterRoute(B)].tokens < capacity
          /\ lastRoute.before[LimiterRoute(B)].alarms # {}

-----------------------------------------------------------------------------
(* Properties of the Streamer *)

\* C23: once the consumer has cancelled a stream, its producer enqueues no
\* further value, and the generator loop terminates.
C23_Cancellation ==
    /\ [][\A id \in DOMAIN streams :
             streams[id].cancels > 0 =>
                streams'[id].counter = streams[id].counter]_vars
    /\ \A id \in 1..MaxFairStreams :
          (id \in DOMAIN streams /\ streams[id].cancels > 0)
             ~> (id \in DOMAIN streams /\ streams[id].gen = "ended")

\* a stream was cancelled while its producer was ahead of the consumer, and
\* its generator has returned
C23_Witness ==
    \E id \in DOMAIN streams :
        /\ streams[id].cancels = 1
        /\ streams[id].counter > WorkerLimit
        /\ streams[id].gen = "ended"

\* the strings "0", "1", "2", "3", "4"
FirstFive == <<(<<48>>), (<<49>>), (<<50>>), (<<51>>), (<<52>>)>>

\* C24 (as claimed): for every /streamer/stream request the worker returns
\* exactly the values "0","1","2","3","4", in order, and has cancelled the
\* stream exactly once.
C24_FiveValues ==
    \A id \in DOMAIN streams :
        streams[id].pc = "returned" =>
            streams[id].data = FirstFive /\ streams[id].cancels = 1

\* C24 (amended): the same for every request whose signal is not already
\* aborted when the stream starts, the cancel coming after the fifth value
\* and never before; a request already aborted gets a closed stream, for
\* which the worker returns no value and cancels nothing.
C24_FiveValuesUnlessAborted ==
    \A id \in DOMAIN streams :
        /\ streams[id].cancels <= 1
        /\ streams[id].cancels = 1 => streams[id].data = FirstFive
        /\ streams[id].pc = "returned" =>
              IF streams[id].requestAborted
              THEN streams[id].data = <<>> /\ streams[id].cancels = 0
              ELSE streams[id].data = FirstFive /\ streams[id].cancels = 1

\* two streams have both been read to their fifth value and cancelled, one
\* of them with its producer already further ahead
C24_Witness ==
    /\ Len(streams) = 2
    /\ \A id \in DOMAIN streams :
          streams[id].pc = "returned" /\ streams[id].cancels = 1
    /\ streams[1].counter > WorkerLimit
    /\ streams[2].counter = WorkerLimit

-----------------------------------------------------------------------------
(* Properties of the Location *)

\* C25: a /location response has the "first request" form exactly when the
\* instance that gave it had handled no request since its construction;
\* otherwise its Previous Location is the city of the request that instance
\* handled just before.
C25_PreviousLocation ==
    answer # NoAnswer =>
        /\ answer.first <=> answer.seen = 0
        /\ ~answer.first => answer.previous = answer.prior

\* after an eviction the new instance answered in the first form, and then
\* reported the city of that request to the next one
C25_Witness ==
    /\ arrivals = 3 /\ queue = <<>> /\ running = {}
    /\ Len(visits) = 2
    /\ ~answer.first
    /\ answer.previous = "Osaka"
    /\ location = "unknown"

-----------------------------------------------------------------------------
(* Properties of MyDurableObject *)

\* C26: every getInitializedAt call served by one instance returns the same
\* value, and the value changes only when the instance is evicted and
\* reconstructed.
C26_InitializedAt ==
    /\ [](\A i, j \in DOMAIN stamps : stamps[i] = stamps[j])
    /\ [][initializedAt' # initializedAt => resident' # resident]_vars

\* one instance has answered two calls, the later one after time had passed
\* since its construction
C26_Witness ==
    /\ Len(stamps) = 2
    /\ resident
    /\ initializedAt # ToISOString(now)
    /\ stamps[2] = initializedAt

-----------------------------------------------------------------------------
(* Properties of the Batcher's alarm *)

\* C27: when an alarm firing completes, the identity's storage is empty, count
\* is 0 and no alarm is pending; the first request acknowledged afterwards is
\* acknowledged with queued = 1 and has an alarm pending 10 seconds after the
\* time it set it.
C27_AlarmClears ==
    [][/\ (/\ \E u \in running : u.type = "alarm"
           /\ \A u \in running' : u.type # "alarm")
          => (DOMAIN storage' = {} /\ count' = 0 /\ alarms' = {})
       /\ (\E u \in running : /\ u.type = "fetch" /\ u.pc = "put"
                              /\ u \notin running'
                              /\ batch = {})
          => /\ count = 1
             /\ DOMAIN storage' = {ToString(1)}
             /\ alarms' = {(IF policy = "batching" THEN windowStart
                                                   ELSE lastArrival)
                           + MsPerSecond * SECONDS}]_vars

\* a batch was handed over and cleared by an alarm firing, and the next
\* arrival has been acknowledged
C27_Witness ==
    /\ running = {}
    /\ \E k \in batch : k >= 2 /\ batch = {k}
    /\ count = 1
    /\ DOMAIN storage = {ToString(1)}
    /\ alarms # {}

-----------------------------------------------------------------------------
(* Properties of the KVStore *)

\* C30: the total_writes reported by /stats equals the number of PUT /kv
\* requests answered with success, and last_key_written is the key of the
\* most recent of them, also after a storage write failed part-way through
\* a request.
C30_StatsMatch ==
    /\ stats.total_writes = stats.acked
    /\ stats.last_key_written = stats.last

-----------------------------------------------------------------------------
(* Properties of the Batcher's storage *)

\* C31 (as claimed): no acknowledged item is overwritten: every put of a
\* fetch writes to a key that holds no item, and outside an alarm firing the
\* number of stored items equals the number of arrivals acknowledged since
\* the last firing, also for batches of ten or more items that span an
\* eviction.
C31_NoOverwrite ==
    /\ []((\A u \in running : u.type # "alarm")
             => Cardinality(DOMAIN storage) = Cardinality(batch))
    /\ [][(\E u \in running : /\ u.type = "fetch" /\ u.pc = "put"
                              /\ u \notin running')
             => ToString(count) \notin DOMAIN storage]_vars

\* C32 (as claimed): every acknowledged item is processed exactly once: the
\* items acknowledged since the last firing are all waiting in storage, and
\* the item list of a firing is exactly those items, whichever of a due alarm
\* and a request arriving at the due time is admitted first.
C32_ExactlyOnce ==
    /\ (\A u \in running : u.type # "alarm")
          => {storage[k] : k \in DOMAIN storage} = batch
    /\ \A u \in FiringUnits : u.items = batch

\* C33: at the end of every unit of work (request or alarm firing) of a
\* Batcher identity, if its storage holds at least one item then an alarm is
\* pending.
C33_NeverStranded ==
    Delivered = {} => (DOMAIN storage # {} => alarms # {})

\* after one batch was processed, two more requests of different kinds have
\* been stored and wait for their alarm
C33_Witness ==
    /\ running = {}
    /\ Cardinality(DOMAIN storage) = 2
    /\ alarms # {}
    /\ \E k \in batch : k >= 3
    /\ windowStart # None /\ lastArrival # None

-----------------------------------------------------------------------------
(* Properties of the Batcher under requests of both kinds *)

\* C34 (as claimed): for any mix of debounce and non-debounce arrivals, a
\* batch whose first arrival was non-debounce at time t0 has its deadline, and
\* the firing that processes it, no later than t0 + 10 s.
C34_MixedDeadline ==
    windowStart # None =>
        /\ \A t \in alarms : t <= windowStart + MsPerSecond * SECONDS
        /\ \A u \in running :
              u.type = "alarm" => u.due <= windowStart + MsPerSecond * SECONDS

\* C34 (amended): a batch whose first arrival was non-debounce at time t0 is
\* processed by the firing due at t0 + 10 s when no debounce arrival joins it;
\* a debounce arrival that joins it moves the deadline to its own time + 10 s.
C34_DeadlineUnlessDebounced ==
    windowStart # None =>
        LET from == IF lastArrival = None THEN windowStart ELSE lastArrival
        IN  /\ alarms # {} => alarms = {from + MsPerSecond * SECONDS}
            /\ \A u \in running :
                  u.type = "alarm" => u.due = from + MsPerSecond * SECONDS

\* a batch opened by a non-debounce arrival and joined later by another is
\* being processed by the firing due 10 s after the first
C34_Witness ==
    /\ policy = "mixed"
    /\ windowStart # None /\ lastArrival = None
    /\ Cardinality(batch) >= 2
    /\ \E u \in FiringUnits : /\ u.due = windowStart + MsPerSecond * SECONDS
                              /\ u.items = batch
    /\ now > windowStart + MsPerSecond * SECONDS

-----------------------------------------------------------------------------
(* Properties of the RateLimiter's bucket *)

C36_AdmissionBound == admitted # None => admitted <= capacity

FailedTargets(cast) == (Range(cast.members) \ {cast.exclude}) \ cast.delivered

\* C38: the session set holds exactly the connections the current instance
\* accepted that have had no close or error event and no failed delivery: it
\* holds every accepted connection that still works and none that was closed
\* or accepted by an earlier instance, a connection joins it only when it is
\* accepted and leaves it only through its close handler or a failed delivery
\* of a broadcast, which removes every connection it failed on, and a
\* broadcast delivers only to connections that are in the set.
C38_Membership ==
    /\ [](resident =>
            /\ Range(sessions) \subseteq
                  {c \in Conns : conn[c] \in {"open", "broken", "closing"}}
            /\ {c \in Conns : conn[c] = "open"} \subseteq Range(sessions)
            /\ Len(sessions) = Cardinality(Range(sessions)))
    /\ [][(resident /\ resident') =>
            /\ \A c \in Range(sessions) \ Range(sessions') :
                  \/ \E u \in running :
                        u.type = "close" /\ u.who = c /\ u \notin running'
                  \/ lastCast' # lastCast /\ c \in FailedTargets(lastCast')
            /\ \A c \in Range(sessions') \ Range(sessions) :
                  \E u \in running :
                     u.type = "join" /\ u.who = c /\ u \notin running'
            /\ lastCast' # lastCast =>
                  /\ lastCast'.delivered \subseteq Range(sessions)
                  /\ FailedTargets(lastCast') \cap Range(sessions') = {}]_vars

\* a broadcast failed on a connection and removed it while two others stay
C38_Witness ==
    /\ resident
    /\ Len(sessions) = 2
    /\ \E c \in Conns :
          /\ conn[c] \in {"broken", "closing"}
          /\ c \in FailedTargets(lastCast)
          /\ c \notin Range(sessions)

\* ---- Properties of the ChatRoom's stored messages ----

\* C39: every message written to the durable history has a non-empty text
\* and a non-empty username, whether it came over POST /chat/send or in a
\* "message" frame of a connection.
C39_WellFormed ==
    \A u \in MessageUnits :
        (u.pc = "put" /\ u.req.item \in Range(History(storage)))
            => (~Falsy(u.req.text) /\ ~Falsy(u.req.username))

====
